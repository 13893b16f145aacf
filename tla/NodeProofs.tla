----------------------------- MODULE NodeProofs -----------------------------
(***************************************************************************)
(* What Node.tla promises for any blocks and chunks from peers, in any     *)
(* order, with restarts anywhere: which orphans wait, which searches are   *)
(* told of a new tip, what a crash may lose and that the file loads.       *)
(***************************************************************************)
EXTENDS Node, BlockchainProofs, FiniteSetTheorems

----------------------------------------------------------------------------
(* The records the handlers work on.                                       *)

NowFields == { "blocks", "states", "mainTip", "pending", "orphans", "orphanHashes", "privateTip",
               "cancel" }

IsNode(w) == DOMAIN w = NowFields

\* v is w but for the pool, the private tip and the cancel flag.
SameTree(v, w) ==
    /\ IsNode(v)
    /\ v.blocks = w.blocks /\ v.states = w.states /\ v.mainTip = w.mainTip
    /\ v.orphans = w.orphans /\ v.orphanHashes = w.orphanHashes

LEMMA NowIsNode == IsNode(Now)
BY DEF IsNode, NowFields, Now

LEMMA TouchedKeeps ==
    ASSUME NEW w, IsNode(w)
    PROVE  SameTree(Touched(w), w) /\ Touched(w).pending = w.pending
                                   /\ Touched(w).cancel = w.cancel
BY DEF SameTree, Touched, IsNode, NowFields

LEMMA TellKeeps ==
    ASSUME NEW w, IsNode(w), NEW hash
    PROVE  SameTree(TellAutomine(w, hash), w) /\ TellAutomine(w, hash).pending = w.pending
BY DEF SameTree, TellAutomine, IsNode, NowFields

LEMMA ReconciledKeeps ==
    ASSUME NEW w, IsNode(w), NEW reconcile, NEW before
    PROVE  LET v == ReconciledIf(reconcile, before, w)
           IN  SameTree(v, w) /\ v.privateTip = w.privateTip /\ v.cancel = w.cancel
BY DEF SameTree, ReconciledIf, Reconcile, IsNode, NowFields

\* What a block that is accepted changes, but for those three.
Gains(v, w, hash, block, applied) ==
    /\ IsNode(v)
    /\ v.blocks = With(w.blocks, hash, block)
    /\ v.states = With(w.states, hash, [height |-> block.block_id, ledger |-> applied.ledger])
    /\ v.mainTip = IF BecomesTipOf(w, block) THEN hash ELSE w.mainTip
    /\ v.orphans = w.orphans

LEMMA StoredGains ==
    ASSUME NEW w, IsNode(w), NEW hash, NEW block, NEW applied
    PROVE  LET v == StoredIn(w, hash, block, applied)
           IN  /\ Gains(v, w, hash, block, applied)
               /\ v.orphanHashes = w.orphanHashes /\ v.pending = w.pending
               /\ v.privateTip = w.privateTip /\ v.cancel = w.cancel
<1> DEFINE bs == With(w.blocks, hash, block)
           ss == With(w.states, hash, [height |-> block.block_id, ledger |-> applied.ledger])
           tip == IF BecomesTipOf(w, block) THEN hash ELSE w.mainTip
<1>1. StoredIn(w, hash, block, applied)
          = [w EXCEPT !.blocks = bs, !.states = ss, !.mainTip = tip]
  BY DEF StoredIn
<1> HIDE DEF bs, ss, tip
<1>2. LET v == StoredIn(w, hash, block, applied)
      IN  /\ IsNode(v) /\ v.blocks = bs /\ v.states = ss /\ v.mainTip = tip
          /\ v.orphans = w.orphans /\ v.orphanHashes = w.orphanHashes
          /\ v.pending = w.pending /\ v.privateTip = w.privateTip /\ v.cancel = w.cancel
  BY <1>1 DEF IsNode, NowFields
<1> QED BY <1>2 DEF Gains, bs, ss, tip

LEMMA ForgetKeeps ==
    ASSUME NEW w, IsNode(w), NEW hash
    PROVE  LET v == Forget(w, hash)
           IN  /\ IsNode(v)
               /\ v.blocks = w.blocks /\ v.states = w.states /\ v.mainTip = w.mainTip
               /\ v.orphans = w.orphans /\ v.orphanHashes = w.orphanHashes \ {hash}
               /\ v.pending = w.pending /\ v.privateTip = w.privateTip /\ v.cancel = w.cancel
BY DEF Forget, IsNode, NowFields

LEMMA AcceptedGains ==
    ASSUME NEW w, IsNode(w), NEW hash, NEW block, NEW applied
    PROVE  LET v == Accepted(w, hash, block, applied)
           IN  /\ Gains(v, w, hash, block, applied)
               /\ v.orphanHashes = w.orphanHashes \ {hash}
               /\ v.pending = w.pending
<1> DEFINE s == StoredIn(w, hash, block, applied)
           f == Forget(s, hash)
           v == TellAutomine(f, hash)
<1>1. Gains(s, w, hash, block, applied) /\ s.orphanHashes = w.orphanHashes
                                        /\ s.pending = w.pending
  BY StoredGains
<1> HIDE DEF s
<1>2. /\ IsNode(f)
      /\ f.blocks = s.blocks /\ f.states = s.states /\ f.mainTip = s.mainTip
      /\ f.orphans = s.orphans /\ f.orphanHashes = s.orphanHashes \ {hash}
      /\ f.pending = s.pending
  BY <1>1, ForgetKeeps DEF Gains
<1> HIDE DEF f
<1>3. SameTree(v, f) /\ v.pending = f.pending
  BY <1>2, TellKeeps
<1>4. Accepted(w, hash, block, applied) = v
  BY DEF Accepted, s, f
<1> HIDE DEF v
<1> QED BY <1>1, <1>2, <1>3, <1>4 DEF Gains, SameTree

\* A block, by what add_block_result says of it.
LEMMA OfferedCases ==
    ASSUME NEW w, IsNode(w), NEW hash, NEW block, NEW synced
    PROVE  LET applied == AppliedTo(w, block)
               status  == Status(w, hash, block, applied)
               o       == Offered(w, hash, block, synced)
           IN  /\ o.accepted = (status = "accepted")
               /\ status = "accepted" =>
                     /\ Gains(o.w, w, hash, block, applied)
                     /\ o.w.orphanHashes = w.orphanHashes \ {hash}
               /\ status = "missing_parent" => o.w = StoreOrphan(w, hash, block.previous_hash)
               /\ status \notin {"accepted", "missing_parent"} => o.w = Forget(w, hash)
<1> DEFINE applied == AppliedTo(w, block)
           status  == Status(w, hash, block, applied)
           o       == Offered(w, hash, block, synced)
           a       == Accepted(w, hash, block, applied)
           r       == ReconciledIf(~synced, w, a)
<1>1. o = OfferedAs(status, w, hash, block, applied, synced)
  BY DEF Offered, OfferedWith
<1> HIDE DEF applied, status, o
<1>2. /\ Gains(a, w, hash, block, applied)
      /\ a.orphanHashes = w.orphanHashes \ {hash}
  BY AcceptedGains
<1> HIDE DEF a
<1>3. SameTree(r, a)
  BY <1>2, ReconciledKeeps DEF Gains
<1>4. o.accepted = (status = "accepted")
  BY <1>1 DEF OfferedAs
<1>5. status = "accepted" => o.w = r
  BY <1>1 DEF OfferedAs, a
<1>6. /\ status = "missing_parent" => o.w = StoreOrphan(w, hash, block.previous_hash)
      /\ status \notin {"accepted", "missing_parent"} => o.w = Forget(w, hash)
  BY <1>1 DEF OfferedAs
<1> HIDE DEF r
<1>7. Gains(r, w, hash, block, applied) /\ r.orphanHashes = w.orphanHashes \ {hash}
  BY <1>2, <1>3 DEF Gains, SameTree
<1> QED BY <1>4, <1>5, <1>6, <1>7 DEF applied, status, o

\* What it says.
LEMMA StatusCases ==
    ASSUME NEW w, NEW hash, NEW block, NEW applied
    PROVE  LET status == Status(w, hash, block, applied)
           IN  /\ hash \in DOMAIN w.blocks => status = "duplicate"
               /\ status = "missing_parent" <=>
                     hash \notin DOMAIN w.blocks
                     /\ block.previous_hash \notin DOMAIN w.blocks \cup {NoHash}
               /\ status = "accepted" <=>
                     /\ hash \notin DOMAIN w.blocks
                     /\ block.previous_hash \in DOMAIN w.blocks \cup {NoHash}
                     /\ ExtendsParentIn(w, block) /\ IsWellFormed(block)
                     /\ ClaimsItsFees(block, applied)
<1> DEFINE parented == block.previous_hash \in DOMAIN w.blocks \cup {NoHash}
           valid == /\ ExtendsParentIn(w, block) /\ IsWellFormed(block)
                    /\ ClaimsItsFees(block, applied)
           new == hash \notin DOMAIN w.blocks
<1>1. valid => parented
  BY DEF ExtendsParentIn
<1>2. Status(w, hash, block, applied) =
        CASE ~new -> "duplicate"
          [] new /\ ~parented -> "missing_parent"
          [] new /\ valid -> "accepted"
          [] OTHER -> "rejected"
  BY DEF Status
<1> HIDE DEF parented, valid, new
<1>3. /\ ~new => Status(w, hash, block, applied) = "duplicate"
      /\ new /\ ~parented => Status(w, hash, block, applied) = "missing_parent"
      /\ new /\ parented /\ valid => Status(w, hash, block, applied) = "accepted"
      /\ new /\ parented /\ ~valid => Status(w, hash, block, applied) = "rejected"
  BY <1>1, <1>2
<1> QED BY <1>1, <1>3 DEF parented, valid, new

----------------------------------------------------------------------------
(* The chain of a node: the invariant of BlockchainProofs, of a record.    *)

HeightsOf(w) == [h \in DOMAIN w.blocks |-> w.states[h].height]

TypesOf(w) ==
    /\ DOMAIN w.blocks \subseteq Hashes /\ DOMAIN w.states = DOMAIN w.blocks
    /\ \A h \in DOMAIN w.blocks : /\ w.states[h].height \in Nat
                                  /\ w.states[h].height = w.blocks[h].block_id
                                  /\ IsSeq(w.blocks[h].transactions)
    /\ IsSeq(w.pending)

TreeOf(w) ==
    /\ \A h \in DOMAIN w.blocks :
          IF w.blocks[h].previous_hash = NoHash
          THEN w.states[h].height = 0
          ELSE /\ w.blocks[h].previous_hash \in DOMAIN w.blocks
               /\ w.states[h].height = w.states[w.blocks[h].previous_hash].height + 1
    /\ \A g, h \in DOMAIN w.blocks :
          w.blocks[g].previous_hash = NoHash /\ w.blocks[h].previous_hash = NoHash => g = h

TipOf(w) ==
    IF DOMAIN w.blocks = {}
    THEN w.mainTip = NoHash
    ELSE /\ w.mainTip \in DOMAIN w.blocks
         /\ \A h \in DOMAIN w.blocks : w.states[h].height <= w.states[w.mainTip].height

ReplayOf(w) ==
    \A h \in DOMAIN w.blocks :
        LET before == StateIn(w, w.blocks[h].previous_hash).ledger
        IN  /\ w.blocks[h].previous_hash = NoHash => IsGenesis(w.blocks[h])
            /\ IsValidChild(w.blocks[h], before)
            /\ w.states[h] = ChildState(w.blocks[h], before)

Sound(w) == IsNode(w) /\ TypesOf(w) /\ TreeOf(w) /\ TipOf(w) /\ ReplayOf(w)

\* Another node with the same chain.
LEMMA SameIsSound ==
    ASSUME NEW w, Sound(w), NEW v, IsNode(v), v.blocks = w.blocks, v.states = w.states,
           v.mainTip = w.mainTip, IsSeq(v.pending)
    PROVE  Sound(v)
<1>1. TypesOf(v)  BY DEF Sound, TypesOf
<1>2. TreeOf(v)  BY DEF Sound, TreeOf
<1>3. TipOf(v)  BY DEF Sound, TipOf
<1>4. ReplayOf(v)  BY DEF Sound, ReplayOf, StateIn
<1> QED BY <1>1, <1>2, <1>3, <1>4 DEF Sound

\* A block that is accepted keeps the chain sound.
LEMMA GainsIsSound ==
    ASSUME NEW w, Sound(w), NEW hash \in Hashes, NEW block, IsSeq(block.transactions),
           Status(w, hash, block, AppliedTo(w, block)) = "accepted",
           NEW v, Gains(v, w, hash, block, AppliedTo(w, block)), IsSeq(v.pending)
    PROVE  /\ Sound(v)
           /\ hash \notin DOMAIN w.blocks
           /\ DOMAIN v.blocks = DOMAIN w.blocks \cup {hash} /\ v.blocks[hash] = block
           /\ \A h \in DOMAIN w.blocks : v.blocks[h] = w.blocks[h] /\ v.states[h] = w.states[h]
           /\ \/ v.mainTip = w.mainTip
              \/ /\ v.mainTip = hash
                 /\ w.mainTip # NoHash =>
                       v.states[v.mainTip].height > w.states[w.mainTip].height
<1> DEFINE parent == block.previous_hash
           applied == AppliedTo(w, block)
           before == StateIn(w, parent).ledger
           child == [height |-> block.block_id, ledger |-> applied.ledger]
<1>1. /\ hash \notin DOMAIN w.blocks
      /\ ExtendsParentIn(w, block) /\ IsWellFormed(block)
      /\ ClaimsItsFees(block, applied)
  BY StatusCases
<1>2. NoHash \notin DOMAIN w.blocks /\ DOMAIN w.states = DOMAIN w.blocks
  BY NoHashAssumption DEF Sound, TypesOf
<1>3. \/ parent = NoHash /\ IsGenesis(block)
         /\ \A h \in DOMAIN w.blocks : w.blocks[h].previous_hash # NoHash
      \/ /\ parent # NoHash /\ parent \in DOMAIN w.blocks
         /\ block.block_id = w.states[parent].height + 1
  BY <1>1 DEF ExtendsParentIn
<1>4. applied = AppliedBlock(block, before)
  BY <1>2, <1>3 DEF AppliedTo, StateIn, FreshState
<1>5. /\ DOMAIN v.blocks = DOMAIN w.blocks \cup {hash} /\ v.blocks[hash] = block
      /\ \A h \in DOMAIN w.blocks : v.blocks[h] = w.blocks[h]
      /\ DOMAIN v.states = DOMAIN w.blocks \cup {hash} /\ v.states[hash] = child
      /\ \A h \in DOMAIN w.blocks : v.states[h] = w.states[h]
      /\ v.mainTip = IF BecomesTipOf(w, block) THEN hash ELSE w.mainTip
      /\ IsNode(v)
  BY <1>1, <1>2 DEF Gains, With
<1>6. child = ChildState(block, before) /\ IsValidChild(block, before)
  BY <1>1, <1>4 DEF ChildState, IsValidChild
<1>7. child.height = block.block_id
  OBVIOUS
<1>8. block.block_id \in Nat
  BY <1>3 DEF IsGenesis, Sound, TypesOf
<1> HIDE DEF child, applied, before
<1>9. TypesOf(v)
  BY <1>5, <1>7, <1>8 DEF Sound, TypesOf
<1>10. TreeOf(v)
  <2>1. ASSUME NEW h \in DOMAIN v.blocks
        PROVE  IF v.blocks[h].previous_hash = NoHash
               THEN v.states[h].height = 0
               ELSE /\ v.blocks[h].previous_hash \in DOMAIN v.blocks
                    /\ v.states[h].height = v.states[v.blocks[h].previous_hash].height + 1
    <3>1. CASE h = hash
      BY <3>1, <1>3, <1>5, <1>7 DEF IsGenesis
    <3>2. CASE h \in DOMAIN w.blocks
      BY <3>2, <1>5 DEF Sound, TreeOf
    <3> QED BY <3>1, <3>2, <1>5
  <2>2. ASSUME NEW g \in DOMAIN v.blocks, NEW h \in DOMAIN v.blocks,
               v.blocks[g].previous_hash = NoHash, v.blocks[h].previous_hash = NoHash
        PROVE  g = h
    BY <2>2, <1>3, <1>5 DEF Sound, TreeOf
  <2> QED BY <2>1, <2>2 DEF TreeOf
<1>11. CASE w.mainTip = NoHash
  <2>1. DOMAIN w.blocks = {} /\ v.mainTip = hash
    BY <1>11, <1>2, <1>5 DEF Sound, TipOf, BecomesTipOf
  <2>2. TipOf(v)
    BY <2>1, <1>5, <1>7, <1>8 DEF TipOf
  <2>3. ReplayOf(v)
    <3>1. parent = NoHash
      BY <2>1, <1>3
    <3> QED BY <3>1, <2>1, <1>3, <1>5, <1>6 DEF ReplayOf, StateIn, before
  <2> QED BY <2>1, <2>2, <2>3, <1>1, <1>5, <1>9, <1>10, <1>11 DEF Sound
<1>12. CASE w.mainTip # NoHash
  <2>1. /\ w.mainTip \in DOMAIN w.blocks
        /\ \A h \in DOMAIN w.blocks : w.states[h].height <= w.states[w.mainTip].height
        /\ \A h \in DOMAIN w.blocks : w.states[h].height \in Nat
    BY <1>12 DEF Sound, TipOf, TypesOf
  <2>2. v.mainTip = IF block.block_id > w.states[w.mainTip].height THEN hash ELSE w.mainTip
    BY <1>5, <1>12 DEF BecomesTipOf
  <2>3. TipOf(v)
    BY <2>1, <2>2, <1>5, <1>7, <1>8 DEF TipOf
  <2>4. \A g \in DOMAIN w.blocks \cup {NoHash} : StateIn(v, g) = StateIn(w, g)
    BY <1>5 DEF StateIn
  <2>5. ReplayOf(v)
    <3> SUFFICES ASSUME NEW h \in DOMAIN v.blocks
                 PROVE  LET l == StateIn(v, v.blocks[h].previous_hash).ledger
                        IN  /\ v.blocks[h].previous_hash = NoHash => IsGenesis(v.blocks[h])
                            /\ IsValidChild(v.blocks[h], l)
                            /\ v.states[h] = ChildState(v.blocks[h], l)
      BY DEF ReplayOf
    <3>1. CASE h = hash
      <4>1. StateIn(v, parent) = StateIn(w, parent)
        BY <2>4, <1>3
      <4> QED BY <3>1, <4>1, <1>3, <1>5, <1>6 DEF before
    <3>2. CASE h \in DOMAIN w.blocks
      <4>1. w.blocks[h].previous_hash \in DOMAIN w.blocks \cup {NoHash}
        BY <3>2 DEF Sound, TreeOf
      <4>2. StateIn(v, w.blocks[h].previous_hash) = StateIn(w, w.blocks[h].previous_hash)
        BY <2>4, <4>1
      <4> QED BY <3>2, <4>2, <1>5 DEF Sound, ReplayOf
    <3> QED BY <3>1, <3>2, <1>5
  <2>6. v.mainTip = w.mainTip
        \/ (v.mainTip = hash /\ v.states[v.mainTip].height > w.states[w.mainTip].height)
    BY <2>2, <1>5, <1>7
  <2> QED BY <2>3, <2>5, <2>6, <1>1, <1>5, <1>9, <1>10 DEF Sound
<1> QED BY <1>11, <1>12

\* Its blocks are a tree, of which a node that has more of them keeps the chains.
LEMMA SoundIsTree ==
    ASSUME NEW w, Sound(w)
    PROVE  IsTree(w.blocks, HeightsOf(w))
<1>1. NoHash \notin DOMAIN w.blocks
  BY NoHashAssumption DEF Sound, TypesOf
<1>2. ASSUME NEW h \in DOMAIN w.blocks
      PROVE  /\ HeightsOf(w)[h] \in Nat
             /\ \/ w.blocks[h].previous_hash = NoHash /\ HeightsOf(w)[h] = 0
                \/ /\ w.blocks[h].previous_hash \in DOMAIN w.blocks
                   /\ HeightsOf(w)[h] = HeightsOf(w)[w.blocks[h].previous_hash] + 1
  BY DEF Sound, TypesOf, TreeOf, HeightsOf
<1>3. \E bound \in Nat : \A h \in DOMAIN w.blocks : HeightsOf(w)[h] <= bound
  <2>1. CASE DOMAIN w.blocks = {}
    BY <2>1
  <2>2. CASE DOMAIN w.blocks # {}
    <3>1. w.states[w.mainTip].height \in Nat
          /\ \A h \in DOMAIN w.blocks : w.states[h].height <= w.states[w.mainTip].height
      BY <2>2 DEF Sound, TipOf, TypesOf
    <3> QED BY <3>1 DEF HeightsOf
  <2> QED BY <2>1, <2>2
<1> QED BY <1>1, <1>2, <1>3 DEF IsTree

----------------------------------------------------------------------------
(* What a handler does to a node, block after block.                       *)

Extends(v, w) ==
    /\ DOMAIN w.blocks \subseteq DOMAIN v.blocks
    /\ \A h \in DOMAIN w.blocks : v.blocks[h] = w.blocks[h] /\ v.states[h] = w.states[h]

\* Another tip is a higher one.
TipRisesTo(v, w) ==
    w.mainTip # NoHash =>
        v.mainTip = w.mainTip \/ v.states[v.mainTip].height > w.states[w.mainTip].height

\* A search is told when the tip to mine on is another one.
TellsPublic(v, w) ==
    /\ v.privateTip = w.privateTip
    /\ miner.at # "off" /\ miner.tip \in DOMAIN w.blocks /\ v.mainTip # w.mainTip => v.cancel

TellsPrivate(v, w) ==
    /\ v.privateTip \in DOMAIN v.blocks
    /\ IsAncestor(v, w.privateTip, v.privateTip)
    /\ miner.at # "off" /\ IsAncestor(w, miner.tip, w.privateTip)
       /\ v.privateTip # w.privateTip => v.cancel

PoolOk(w) == PoolOn(w.pending, StateIn(w, w.mainTip)).ok

\* In public the pool loses nothing as long as the tip is the same.
PoolStays(v, w) ==
    ~private /\ v.mainTip = w.mainTip => ToSet(w.pending) \subseteq ToSet(v.pending)

\* The payments of the blocks and the pool were there or came with a block, and no reward
\* gets into the pool.
TxsOf(w) == ToSet(w.pending) \cup UNION {ToSet(w.blocks[h].transactions) : h \in DOMAIN w.blocks}
FromPeers == UNION {ToSet(PeerBlocks[h].transactions) : h \in DOMAIN PeerBlocks}

Comes(v, w) ==
    /\ TxsOf(v) \subseteq TxsOf(w) \cup FromPeers
    /\ \A tx \in ToSet(v.pending) : tx \in ToSet(w.pending) \/ ~IsReward(tx)

Grown(v, w, synced) ==
    /\ Sound(v)
    /\ Extends(v, w)
    /\ Comes(v, w)
    /\ TipRisesTo(v, w)
    /\ w.cancel => v.cancel
    /\ ~private => TellsPublic(v, w)
    /\ private => TellsPrivate(v, w)
    /\ IF synced
       THEN v.pending = w.pending
       ELSE PoolOk(w) => PoolOk(v) /\ PoolStays(v, w)

\* What the handlers begin with, the call of Touched behind them.
Ready(w) == Sound(w) /\ (private => w.privateTip \in DOMAIN w.blocks)

LEMMA OwnAncestor ==
    ASSUME NEW w, Sound(w), NEW h \in DOMAIN w.blocks
    PROVE  IsAncestor(w, h, h)
BY SoundIsTree, AncestorsGrow DEF IsAncestor

LEMMA AncestorsStay ==
    ASSUME NEW w, Sound(w), NEW v, Sound(v), Extends(v, w), NEW h \in DOMAIN w.blocks, NEW a
    PROVE  IsAncestor(v, a, h) <=> IsAncestor(w, a, h)
<1>1. ChainTo(v.blocks, h) = ChainTo(w.blocks, h)
  BY SoundIsTree, ChainsStay DEF Extends
<1> QED BY <1>1 DEF IsAncestor

LEMMA AncestorIsTransitive ==
    ASSUME NEW w, Sound(w), NEW h \in DOMAIN w.blocks, NEW b, IsAncestor(w, b, h),
           NEW a, IsAncestor(w, a, b)
    PROVE  IsAncestor(w, a, h)
BY SoundIsTree, AncestorsOfAncestors DEF IsAncestor

LEMMA SameGrows ==
    ASSUME NEW w, Ready(w), NEW v, IsNode(v),
           v.blocks = w.blocks, v.states = w.states, v.mainTip = w.mainTip,
           v.pending = w.pending, v.privateTip = w.privateTip, v.cancel = w.cancel, NEW synced
    PROVE  Grown(v, w, synced)
<1>1. Sound(v)
  BY SameIsSound DEF Ready, Sound, TypesOf
<1>2. Extends(v, w) /\ TipRisesTo(v, w)
  BY DEF Extends, TipRisesTo
<1>3. PoolOk(w) <=> PoolOk(v)
  BY DEF PoolOk, StateIn
<1>4. private => IsAncestor(v, w.privateTip, v.privateTip)
  BY <1>1, OwnAncestor DEF Ready
<1>5. Comes(v, w)
  BY DEF Comes, TxsOf
<1> QED BY <1>1, <1>2, <1>3, <1>4, <1>5 DEF Grown, TellsPublic, TellsPrivate, Ready, PoolStays

LEMMA GrowsOn ==
    ASSUME NEW w, Ready(w), NEW synced, NEW v, Grown(v, w, synced), NEW u, Grown(u, v, synced)
    PROVE  Ready(v) /\ Grown(u, w, synced)
<1>1. Sound(w) /\ Sound(v) /\ Sound(u) /\ Extends(v, w) /\ Extends(u, v)
  BY DEF Grown, Ready
<1>2. Ready(v)
  BY DEF Ready, Grown, TellsPrivate
<1>3. Extends(u, w)
  BY <1>1 DEF Extends
<1>4. TipRisesTo(u, w) /\ (w.mainTip # NoHash /\ u.mainTip = w.mainTip => v.mainTip = w.mainTip)
  <2> SUFFICES ASSUME w.mainTip # NoHash
               PROVE  \/ u.mainTip = w.mainTip /\ v.mainTip = w.mainTip
                      \/ /\ u.states[u.mainTip].height > w.states[w.mainTip].height
                         /\ u.mainTip # w.mainTip
    BY DEF TipRisesTo
  <2>1. /\ w.mainTip \in DOMAIN w.blocks /\ v.mainTip \in DOMAIN v.blocks
        /\ u.mainTip \in DOMAIN u.blocks /\ NoHash \notin DOMAIN v.blocks
    BY <1>1, NoHashAssumption DEF Sound, TipOf, TypesOf, Extends
  <2>2. /\ w.states[w.mainTip].height \in Nat /\ v.states[v.mainTip].height \in Nat
        /\ u.states[u.mainTip].height \in Nat
    BY <1>1, <2>1 DEF Sound, TypesOf
  <2>3. \/ v.mainTip = w.mainTip /\ v.states[v.mainTip] = w.states[w.mainTip]
        \/ v.states[v.mainTip].height > w.states[w.mainTip].height
    BY <1>1, <2>1 DEF Grown, TipRisesTo, Extends
  <2>4. \/ u.mainTip = v.mainTip /\ u.states[u.mainTip] = v.states[v.mainTip]
        \/ u.states[u.mainTip].height > v.states[v.mainTip].height
    BY <1>1, <2>1 DEF Grown, TipRisesTo, Extends
  <2>5. u.states[w.mainTip] = w.states[w.mainTip]
    BY <1>3, <2>1 DEF Extends
  <2> QED BY <2>2, <2>3, <2>4, <2>5
<1>5. w.cancel => u.cancel
  BY DEF Grown
<1>6. ~private => TellsPublic(u, w)
  BY <1>1 DEF Grown, TellsPublic, Extends
<1>7. private => TellsPrivate(u, w)
  <2> SUFFICES ASSUME private PROVE TellsPrivate(u, w)
    OBVIOUS
  <2>1. /\ w.privateTip \in DOMAIN w.blocks
        /\ v.privateTip \in DOMAIN v.blocks /\ u.privateTip \in DOMAIN u.blocks
        /\ IsAncestor(v, w.privateTip, v.privateTip)
        /\ IsAncestor(u, v.privateTip, u.privateTip)
    BY DEF Ready, Grown, TellsPrivate
  <2>2. IsAncestor(u, w.privateTip, v.privateTip)
    BY <1>1, <2>1, AncestorsStay
  <2>3. IsAncestor(u, w.privateTip, u.privateTip)
    BY <1>1, <2>1, <2>2, AncestorIsTransitive
  <2>4. ASSUME IsAncestor(w, miner.tip, w.privateTip)
        PROVE  IsAncestor(v, miner.tip, v.privateTip)
    <3>1. IsAncestor(v, miner.tip, w.privateTip)
      BY <1>1, <2>1, <2>4, AncestorsStay
    <3> QED BY <1>1, <2>1, <3>1, AncestorIsTransitive
  <2>5. /\ miner.at # "off" /\ IsAncestor(w, miner.tip, w.privateTip)
           /\ v.privateTip # w.privateTip => v.cancel
        /\ miner.at # "off" /\ IsAncestor(v, miner.tip, v.privateTip)
           /\ u.privateTip # v.privateTip => u.cancel
        /\ v.cancel => u.cancel
    BY DEF Grown, TellsPrivate
  <2> QED BY <2>1, <2>3, <2>4, <2>5 DEF TellsPrivate
<1>8. u.mainTip = w.mainTip => v.mainTip = w.mainTip
  <2>1. CASE w.mainTip # NoHash
    BY <1>4, <2>1
  <2>2. CASE w.mainTip = NoHash
    BY <1>1, <2>2, NoHashAssumption DEF Sound, TipOf, TypesOf, Extends
  <2> QED BY <2>1, <2>2
<1>9. IF synced THEN u.pending = w.pending ELSE PoolOk(w) => PoolOk(u) /\ PoolStays(u, w)
  BY <1>8 DEF Grown, PoolStays
<1>10. Comes(u, w)
  BY DEF Grown, Comes
<1> QED BY <1>1, <1>2, <1>3, <1>4, <1>5, <1>6, <1>7, <1>9, <1>10 DEF Grown

\* A block more.
LEMMA GainsComes ==
    ASSUME NEW w, NEW v, NEW hash, v.pending = w.pending,
           DOMAIN v.blocks = DOMAIN w.blocks \cup {hash},
           \A h \in DOMAIN w.blocks : v.blocks[h] = w.blocks[h]
    PROVE  /\ TxsOf(v) \subseteq TxsOf(w) \cup ToSet(v.blocks[hash].transactions)
           /\ ToSet(v.blocks[hash].transactions) \subseteq FromPeers => Comes(v, w)
<1>1. TxsOf(v) \subseteq TxsOf(w) \cup ToSet(v.blocks[hash].transactions)
  BY DEF TxsOf
<1> QED BY <1>1 DEF Comes

\* What a reconciliation puts into the pool was in a block.
LEMMA ReconcileComes ==
    ASSUME NEW w, Sound(w), NEW previous \in DOMAIN w.blocks \cup {NoHash},
           NEW current \in DOMAIN w.blocks \cup {NoHash}
    PROVE  LET v == Reconcile(w, previous, current)
           IN  /\ TxsOf(v) \subseteq TxsOf(w)
               /\ \A tx \in ToSet(v.pending) : tx \in ToSet(w.pending) \/ ~IsReward(tx)
<1> DEFINE v      == Reconcile(w, previous, current)
           tree   == w.blocks
           height == HeightsOf(w)
           txs    == w.pending
           canonical == StateIn(w, w.mainTip)
           kept   == Reconciled(tree, canonical, previous, current, txs)
<1>1. v = [w EXCEPT !.pending = kept]
  BY DEF Reconcile
<1>2. /\ IsTree(tree, height) /\ IsSeq(txs)
      /\ \A h \in DOMAIN tree : IsSeq(tree[h].transactions)
      /\ previous \in DOMAIN tree \cup {NoHash} /\ current \in DOMAIN tree \cup {NoHash}
  BY SoundIsTree DEF Sound, TypesOf
<1> HIDE DEF canonical, height, tree, txs
<1>3. ToSet(kept)
        \subseteq ToSet(txs) \cup {tx \in ToSet(BranchTransactions(tree, previous, NoHash)) :
                                     ~IsReward(tx)}
  BY <1>2, ReconciledComesFrom
<1>4. /\ ToSet(BranchTransactions(tree, previous, NoHash))
            = UNION {ToSet(tree[h].transactions) : h \in ToSet(ChainTo(tree, previous))}
      /\ ToSet(ChainTo(tree, previous)) \subseteq DOMAIN tree
  BY <1>2, BranchOfChain, AncestorsOfAncestors
<1> HIDE DEF kept, v
<1>5. v.pending = kept /\ v.blocks = tree
  BY <1>1 DEF Sound, IsNode, NowFields, tree
<1>6. TxsOf(v) \subseteq TxsOf(w)
  BY <1>3, <1>4, <1>5 DEF TxsOf, tree, txs
<1> QED BY <1>3, <1>5, <1>6 DEF v, txs

\* The pool between two tips of an earlier node.
LEMMA ReconcileIsSound ==
    ASSUME NEW w, Sound(w), NEW previous \in DOMAIN w.blocks \cup {NoHash},
           NEW current \in DOMAIN w.blocks \cup {NoHash}
    PROVE  LET v == Reconcile(w, previous, current)
           IN  SameTree(v, w) /\ v.privateTip = w.privateTip /\ v.cancel = w.cancel
               /\ Sound(v) /\ PoolOk(v)
<1> DEFINE v    == Reconcile(w, previous, current)
           kept == Reconciled(w.blocks, StateIn(w, w.mainTip), previous, current, w.pending)
<1>1. v = [w EXCEPT !.pending = kept]
  BY DEF Reconcile
<1>2. IsSeq(BranchTransactions(w.blocks, previous, CommonAncestor(w.blocks, previous, current)))
  BY SoundIsTree, ReturnedIsSeq DEF Sound, TypesOf
<1>3. IsSeq(w.pending)
  BY DEF Sound, TypesOf
<1>4. IsSeq(kept) /\ PoolOn(kept, StateIn(w, w.mainTip)).ok
  BY <1>2, <1>3, ReconciledIsApplicable
<1> HIDE DEF kept, v
<1>5. /\ SameTree(v, w) /\ v.pending = kept
      /\ v.privateTip = w.privateTip /\ v.cancel = w.cancel
  BY <1>1 DEF SameTree, Sound, IsNode, NowFields
<1>6. Sound(v)
  BY <1>4, <1>5, SameIsSound DEF SameTree
<1>7. PoolOk(v)
  BY <1>4, <1>5 DEF PoolOk, StateIn, SameTree
<1> QED BY <1>5, <1>6, <1>7 DEF v

\* Between a tip and itself it keeps what it has.
LEMMA ReconcileStays ==
    ASSUME NEW w, Sound(w), PoolOk(w)
    PROVE  ToSet(Reconcile(w, w.mainTip, w.mainTip).pending) = ToSet(w.pending)
<1> DEFINE canonical == StateIn(w, w.mainTip)
           tree   == w.blocks
           height == HeightsOf(w)
           head   == w.mainTip
           txs    == w.pending
           kept   == Reconciled(tree, canonical, head, head, txs)
<1>1. Reconcile(w, w.mainTip, w.mainTip) = [w EXCEPT !.pending = kept]
  BY DEF Reconcile
<1>2. /\ IsTree(tree, height) /\ head \in DOMAIN tree \cup {NoHash}
      /\ \A h \in DOMAIN tree : IsSeq(tree[h].transactions)
      /\ IsSeq(txs) /\ PoolOn(txs, canonical).ok
  BY SoundIsTree DEF Sound, TypesOf, TipOf, PoolOk
<1> HIDE DEF canonical, height, tree, head
<1>3. ToSet(kept) = ToSet(txs)
  <2> HIDE DEF txs
  <2> QED BY <1>2, ReconciledStays
<1> HIDE DEF kept
<1> QED BY <1>1, <1>3 DEF Sound, IsNode, NowFields

\* A pool that applies still does as long as it and the tip are the same.
LEMMA SameTipSamePool ==
    ASSUME NEW w, Sound(w), PoolOk(w), NEW v, Extends(v, w), v.mainTip = w.mainTip,
           v.pending = w.pending
    PROVE  PoolOk(v)
<1>1. w.mainTip = NoHash \/ w.mainTip \in DOMAIN w.blocks
  BY DEF Sound, TipOf
<1>2. StateIn(v, v.mainTip) = StateIn(w, w.mainTip)
  BY <1>1 DEF StateIn, Extends
<1> QED BY <1>2 DEF PoolOk

LEMMA StateTipIsStored ==
    ASSUME NEW w, Sound(w)
    PROVE  StateTip(w) \in DOMAIN w.blocks \cup {NoHash}
BY DEF StateTip, Sound, TypesOf, TipOf

\* A block that is accepted, before the pool is reconciled.
LEMMA AcceptedGrows ==
    ASSUME NEW w, Ready(w), NEW hash \in Hashes, NEW block, IsSeq(block.transactions),
           ToSet(block.transactions) \subseteq FromPeers,
           Status(w, hash, block, AppliedTo(w, block)) = "accepted"
    PROVE  Grown(Accepted(w, hash, block, AppliedTo(w, block)), w, TRUE)
<1> DEFINE applied == AppliedTo(w, block)
           s == StoredIn(w, hash, block, applied)
           f == Forget(s, hash)
           v == TellAutomine(f, hash)
<1>1. Accepted(w, hash, block, applied) = v
  BY DEF Accepted
<1>2. IsNode(w) /\ Sound(w) /\ IsSeq(w.pending)
  BY DEF Ready, Sound, TypesOf
<1>3. /\ Gains(s, w, hash, block, applied) /\ s.pending = w.pending
      /\ s.privateTip = w.privateTip /\ s.cancel = w.cancel
  BY <1>2, StoredGains
<1>4. /\ Sound(s) /\ hash \notin DOMAIN w.blocks
      /\ DOMAIN s.blocks = DOMAIN w.blocks \cup {hash} /\ s.blocks[hash] = block
      /\ \A h \in DOMAIN w.blocks : s.blocks[h] = w.blocks[h] /\ s.states[h] = w.states[h]
      /\ \/ s.mainTip = w.mainTip
         \/ /\ s.mainTip = hash
            /\ w.mainTip # NoHash => s.states[s.mainTip].height > w.states[w.mainTip].height
  BY <1>2, <1>3, GainsIsSound
<1> HIDE DEF s, applied
<1>5. /\ IsNode(f) /\ f.blocks = s.blocks /\ f.states = s.states /\ f.mainTip = s.mainTip
      /\ f.pending = s.pending /\ f.privateTip = s.privateTip /\ f.cancel = s.cancel
  BY <1>3, ForgetKeeps DEF Gains
<1> HIDE DEF f
<1>6. SameTree(v, f) /\ v.pending = f.pending
  BY <1>5, TellKeeps
<1>7. Sound(f) /\ Sound(v)
  BY <1>2, <1>3, <1>4, <1>5, <1>6, SameIsSound DEF SameTree
<1>8. Extends(f, w) /\ Extends(v, w)
  BY <1>4, <1>5, <1>6 DEF SameTree, Extends
<1>9. TipRisesTo(v, w)
  BY <1>4, <1>5, <1>6 DEF SameTree, TipRisesTo
<1> HIDE DEF v
<1>12. v.pending = w.pending /\ Comes(v, w)
  <2>1. v.pending = w.pending
    BY <1>3, <1>5, <1>6
  <2>2. v.blocks = s.blocks
    BY <1>5, <1>6 DEF SameTree
  <2> QED BY <1>4, <2>1, <2>2, GainsComes
<1>13. ASSUME w.cancel => v.cancel, ~private => TellsPublic(v, w), private => TellsPrivate(v, w)
       PROVE  Grown(v, w, TRUE)
  BY ONLY <1>7, <1>8, <1>9, <1>12, <1>13 DEF Grown
<1> SUFFICES Grown(v, w, TRUE)
  BY <1>1 DEF applied
<1>10. CASE ~private
  <2>1. v = [f EXCEPT !.cancel = f.cancel
                      \/ (miner.at # "off" /\ miner.tip \notin {NoHash, f.mainTip})]
    BY <1>10 DEF TellAutomine, v
  <2>2. /\ v.privateTip = f.privateTip
        /\ v.cancel = (f.cancel \/ (miner.at # "off" /\ miner.tip \notin {NoHash, f.mainTip}))
    BY <2>1, <1>5 DEF IsNode, NowFields
  <2>3. NoHash \notin DOMAIN w.blocks
    BY <1>2, NoHashAssumption DEF Sound, TypesOf
  <2>4. TellsPublic(v, w)
    BY <1>3, <1>4, <1>5, <1>6, <2>2, <2>3 DEF TellsPublic, SameTree
  <2>5. w.cancel => v.cancel
    BY <2>2, <1>3, <1>5
  <2> QED BY ONLY <1>10, <1>13, <2>4, <2>5
<1>11. CASE private
  <2>1. w.privateTip \in DOMAIN w.blocks /\ NoHash \notin DOMAIN w.blocks
    BY <1>2, <1>11, NoHashAssumption DEF Ready, Sound, TypesOf
  <2>2. f.privateTip = w.privateTip /\ f.cancel = w.cancel
    BY <1>3, <1>5
  <2>3. CASE IsAncestor(f, w.privateTip, hash)
    <3>1. v = [f EXCEPT !.privateTip = hash,
                        !.cancel = f.cancel \/ (miner.at # "off" /\ IsAncestor(f, miner.tip, hash))]
      BY <1>4, <1>11, <2>1, <2>2, <2>3 DEF TellAutomine, v
    <3>2. /\ v.privateTip = hash
          /\ v.cancel = (f.cancel \/ (miner.at # "off" /\ IsAncestor(f, miner.tip, hash)))
      BY <3>1, <1>5 DEF IsNode, NowFields
    <3>3. hash \in DOMAIN f.blocks /\ hash \in DOMAIN v.blocks
      BY <1>4, <1>5, <1>6 DEF SameTree
    <3>4. IsAncestor(v, w.privateTip, v.privateTip)
      BY <1>6, <2>3, <3>2 DEF IsAncestor, SameTree
    <3>5. ASSUME IsAncestor(w, miner.tip, w.privateTip)
          PROVE  IsAncestor(f, miner.tip, hash)
      <4>1. IsAncestor(f, miner.tip, w.privateTip)
        BY <1>2, <1>7, <1>8, <2>1, <3>5, AncestorsStay
      <4> QED BY <1>7, <2>3, <3>3, <4>1, AncestorIsTransitive
    <3>6. TellsPrivate(v, w)
      BY <3>2, <3>3, <3>4, <3>5 DEF TellsPrivate
    <3>7. w.cancel => v.cancel
      BY <3>2, <2>2
    <3> QED BY ONLY <1>11, <1>13, <3>6, <3>7
  <2>4. CASE ~IsAncestor(f, w.privateTip, hash)
    <3>1. v = f
      BY <1>11, <2>2, <2>4 DEF TellAutomine, v
    <3>2. w.privateTip \in DOMAIN v.blocks
      BY <2>1, <1>8 DEF Extends
    <3>3. IsAncestor(v, w.privateTip, w.privateTip)
      BY <1>7, <3>2, OwnAncestor
    <3>4. TellsPrivate(v, w)
      BY <2>2, <3>1, <3>2, <3>3 DEF TellsPrivate
    <3>5. w.cancel => v.cancel
      BY <2>2, <3>1
    <3> QED BY ONLY <1>11, <1>13, <3>4, <3>5
  <2> QED BY <2>3, <2>4
<1> QED BY <1>10, <1>11

\* A block that is offered, whatever becomes of it.
LEMMA OfferedGrows ==
    ASSUME NEW w, Ready(w), NEW hash \in Hashes, NEW block, IsSeq(block.transactions),
           ToSet(block.transactions) \subseteq FromPeers, NEW synced \in BOOLEAN
    PROVE  Grown(Offered(w, hash, block, synced).w, w, synced)
<1> DEFINE applied == AppliedTo(w, block)
           status  == Status(w, hash, block, applied)
           a       == Accepted(w, hash, block, applied)
           r       == ReconciledIf(~synced, w, a)
           o       == Offered(w, hash, block, synced)
<1>1. o = OfferedAs(status, w, hash, block, applied, synced)
  BY DEF Offered, OfferedWith
<1>2. IsNode(w) /\ Sound(w)
  BY DEF Ready, Sound
<1>3. CASE status = "accepted"
  <2>1. o.w = r
    BY <1>1, <1>3 DEF OfferedAs
  <2>2. Grown(a, w, TRUE)
    BY <1>3, AcceptedGrows
  <2> HIDE DEF o, a
  <2>3. CASE synced
    <3>1. o.w = a
      BY <2>1, <2>3 DEF ReconciledIf
    <3> QED BY <2>2, <2>3, <3>1 DEF o
  <2>4. CASE ~synced
    <3>1. o.w = Reconcile(a, StateTip(w), StateTip(a))
      BY <2>1, <2>4 DEF ReconciledIf
    <3>2. Sound(a) /\ Extends(a, w)
      BY <2>2 DEF Grown
    <3>3. /\ StateTip(w) \in DOMAIN a.blocks \cup {NoHash}
          /\ StateTip(a) \in DOMAIN a.blocks \cup {NoHash}
      BY <1>2, <3>2, StateTipIsStored DEF Extends
    <3>4. /\ SameTree(o.w, a) /\ o.w.privateTip = a.privateTip /\ o.w.cancel = a.cancel
          /\ Sound(o.w) /\ PoolOk(o.w)
      <4> DEFINE v == Reconcile(a, StateTip(w), StateTip(a))
      <4>1. /\ SameTree(v, a) /\ v.privateTip = a.privateTip /\ v.cancel = a.cancel
            /\ Sound(v) /\ PoolOk(v)
        BY ONLY <3>2, <3>3, ReconcileIsSound
      <4>2. o.w = v
        BY ONLY <3>1
      <4> HIDE DEF v
      <4> QED BY ONLY <4>1, <4>2
    <3>5. Extends(o.w, w) /\ TipRisesTo(o.w, w)
      BY <3>4, <2>2 DEF Grown, Extends, TipRisesTo, SameTree
    <3>6. ~private => TellsPublic(o.w, w)
      BY <3>4, <2>2 DEF Grown, TellsPublic, SameTree
    <3>7. private => TellsPrivate(o.w, w)
      BY <3>4, <2>2 DEF Grown, TellsPrivate, SameTree, IsAncestor
    <3>8. w.cancel => o.w.cancel
      BY <3>4, <2>2 DEF Grown
    <3>9. PoolOk(w) => PoolStays(o.w, w)
      <4> SUFFICES ASSUME PoolOk(w), ~private, o.w.mainTip = w.mainTip
                   PROVE  ToSet(w.pending) \subseteq ToSet(o.w.pending)
        BY DEF PoolStays
      <4>1. a.mainTip = w.mainTip /\ a.pending = w.pending
        BY <3>4, <2>2 DEF SameTree, Grown
      <4>2. PoolOk(a)
        BY <1>2, <2>2, <4>1, SameTipSamePool DEF Grown
      <4>3. o.w = Reconcile(a, a.mainTip, a.mainTip)
        BY <3>1, <4>1 DEF StateTip
      <4> QED BY <3>2, <4>1, <4>2, <4>3, ReconcileStays
    <3>10. Comes(o.w, w)
      <4>1. /\ TxsOf(o.w) \subseteq TxsOf(a)
            /\ \A tx \in ToSet(o.w.pending) : tx \in ToSet(a.pending) \/ ~IsReward(tx)
        BY <3>1, <3>2, <3>3, ReconcileComes
      <4> QED BY <2>2, <4>1 DEF Grown, Comes
    <3> QED BY <3>4, <3>5, <3>6, <3>7, <3>8, <3>9, <3>10, <2>4 DEF Grown, o
  <2> QED BY <2>3, <2>4
<1>4. CASE status # "accepted"
  <2>1. o.w = Forget(w, hash) \/ o.w = StoreOrphan(w, hash, block.previous_hash)
    BY <1>2, <1>4, OfferedCases
  <2> HIDE DEF o
  <2>2. /\ IsNode(o.w)
        /\ o.w.blocks = w.blocks /\ o.w.states = w.states /\ o.w.mainTip = w.mainTip
        /\ o.w.pending = w.pending /\ o.w.privateTip = w.privateTip /\ o.w.cancel = w.cancel
    BY <1>2, <2>1 DEF Forget, StoreOrphan, IsNode, NowFields
  <2>3. Grown(o.w, w, synced)
    BY <2>2, SameGrows
  <2> QED BY <2>3 DEF o
<1> QED BY <1>3, <1>4

----------------------------------------------------------------------------
(* Orphans.                                                                *)

ListedIn(w) == UNION {ToSet(w.orphans[p]) : p \in DOMAIN w.orphans}

\* What peers build on.
MayBeParent == DOMAIN PeerBlocks \cup {GenesisHash} \cup sent

\* The lists of orphans, while those of left are taken off them to be tried,
\* and those that wait for the parents open are yet to be.
WaitFor(w, left, open) ==
    /\ IsNode(w)
    /\ DOMAIN w.orphans \cap DOMAIN w.blocks \subseteq open
    /\ DOMAIN w.orphans \subseteq MayBeParent \ {NoHash}
    /\ w.orphanHashes = ListedIn(w) \cup left
    /\ w.orphanHashes \cap DOMAIN w.blocks = {}
    /\ w.orphanHashes \subseteq DOMAIN PeerBlocks
    /\ IsFiniteSet(w.orphanHashes)
    /\ \A p \in DOMAIN w.orphans :
          /\ IsSeq(w.orphans[p]) /\ IsInjective(w.orphans[p])
          /\ \A h \in ToSet(w.orphans[p]) : PeerBlocks[h].previous_hash = p

\* Another node with the same lists and blocks.
LEMMA SameWait ==
    ASSUME NEW w, NEW left, NEW open, WaitFor(w, left, open), NEW v, IsNode(v),
           v.blocks = w.blocks, v.orphans = w.orphans, v.orphanHashes = w.orphanHashes
    PROVE  WaitFor(v, left, open)
BY DEF WaitFor, ListedIn

\* A block that is stored is no orphan any more.
LEMMA GainsWait ==
    ASSUME NEW w, NEW left, NEW open, WaitFor(w, left, open), NEW hash, hash \notin ListedIn(w),
           NEW v, IsNode(v), DOMAIN v.blocks \subseteq DOMAIN w.blocks \cup {hash},
           v.orphans = w.orphans, v.orphanHashes = w.orphanHashes \ {hash}
    PROVE  WaitFor(v, left \ {hash}, open \cup {hash})
<1>1. ListedIn(v) = ListedIn(w)
  BY DEF ListedIn
<1>2. v.orphanHashes = ListedIn(v) \cup (left \ {hash})
  BY <1>1 DEF WaitFor
<1>3. IsFiniteSet(v.orphanHashes)
  <2>1. IsFiniteSet(w.orphanHashes)
    BY DEF WaitFor
  <2>2. IsFiniteSet(w.orphanHashes \ {hash})
    BY <2>1, FS_RemoveElement
  <2> QED BY <2>2
<1> QED BY <1>2, <1>3 DEF WaitFor

\* A block that is refused is forgotten.
LEMMA ForgetWaits ==
    ASSUME NEW w, NEW left, NEW open, WaitFor(w, left, open), NEW hash, hash \notin ListedIn(w)
    PROVE  WaitFor(Forget(w, hash), left \ {hash}, open)
<1> DEFINE v == Forget(w, hash)
<1>1. /\ IsNode(v) /\ v.blocks = w.blocks
      /\ v.orphans = w.orphans /\ v.orphanHashes = w.orphanHashes \ {hash}
  BY ForgetKeeps DEF WaitFor
<1> HIDE DEF v
<1>2. ListedIn(v) = ListedIn(w)
  BY <1>1 DEF ListedIn
<1>3. v.orphanHashes = ListedIn(v) \cup (left \ {hash})
  BY <1>1, <1>2 DEF WaitFor
<1>4. IsFiniteSet(v.orphanHashes)
  BY <1>1, FS_RemoveElement DEF WaitFor
<1>5. WaitFor(v, left \ {hash}, open)
  BY <1>1, <1>3, <1>4 DEF WaitFor
<1> QED BY <1>5 DEF v

\* A block that came before its parent joins those that wait for it.
LEMMA StoreOrphanWaits ==
    ASSUME NEW w, WaitFor(w, {}, {}), NEW hash \in DOMAIN PeerBlocks, hash \notin DOMAIN w.blocks,
           NEW parent \in MayBeParent \ {NoHash}, parent = PeerBlocks[hash].previous_hash,
           parent \notin DOMAIN w.blocks
    PROVE  WaitFor(StoreOrphan(w, hash, parent), {}, {})
<1>1. CASE hash \in w.orphanHashes
  BY <1>1 DEF StoreOrphan
<1>2. CASE hash \notin w.orphanHashes
  <2> DEFINE old == Waiting(w, parent)
             new == Append(old, hash)
             lists == With(w.orphans, parent, new)
             v == StoreOrphan(w, hash, parent)
  <2>1. v = [w EXCEPT !.orphanHashes = @ \cup {hash}, !.orphans = lists]
    BY <1>2 DEF StoreOrphan
  <2>2. /\ DOMAIN lists = DOMAIN w.orphans \cup {parent}
        /\ lists[parent] = new
        /\ \A p \in DOMAIN w.orphans \ {parent} : lists[p] = w.orphans[p]
    BY DEF With
  <2>3. /\ IsSeq(old) /\ IsInjective(old) /\ ToSet(old) \subseteq ListedIn(w)
        /\ \A h \in ToSet(old) : PeerBlocks[h].previous_hash = parent
    <3>1. CASE parent \in DOMAIN w.orphans
      BY <3>1 DEF Waiting, WaitFor, ListedIn
    <3>2. CASE parent \notin DOMAIN w.orphans
      <4>1. old = << >>
        BY <3>2 DEF Waiting
      <4> QED BY <4>1, EmptyIsSeq DEF IsInjective, ToSet
    <3> QED BY <3>1, <3>2
  <2> HIDE DEF old, lists, v
  <2>4. hash \notin ToSet(old)
    BY <1>2, <2>3 DEF WaitFor
  <2>5. IsSeq(new) /\ IsInjective(new) /\ ToSet(new) = ToSet(old) \cup {hash}
    <3>1. /\ IsSeq(new) /\ Len(old) \in Nat /\ DOMAIN old = 1 .. Len(old)
          /\ Len(new) = Len(old) + 1 /\ DOMAIN new = 1 .. Len(new)
          /\ \A i \in 1 .. Len(old) : new[i] = old[i]
          /\ new[Len(old) + 1] = hash
      BY <2>3, SeqLength, AppendIsSeq
    <3> HIDE DEF new
    <3>2. DOMAIN new = DOMAIN old \cup {Len(old) + 1} /\ Len(old) + 1 \notin DOMAIN old
      BY <3>1
    <3>3. \A i \in DOMAIN old : old[i] # hash
      BY <2>4 DEF ToSet
    <3> QED BY <2>3, <3>1, <3>2, <3>3 DEF IsInjective, ToSet
  <2> HIDE DEF new
  <2>6. /\ IsNode(v) /\ v.blocks = w.blocks
        /\ v.orphanHashes = w.orphanHashes \cup {hash} /\ v.orphans = lists
    BY <2>1 DEF WaitFor, IsNode, NowFields
  <2>7. ListedIn(v) = ListedIn(w) \cup {hash}
    <3>1. \A h \in ListedIn(v) : h \in ListedIn(w) \cup {hash}
      BY <2>2, <2>3, <2>5, <2>6 DEF ListedIn
    <3>2. \A h \in ListedIn(w) : h \in ListedIn(v)
      <4> TAKE h \in ListedIn(w)
      <4>1. PICK p \in DOMAIN w.orphans : h \in ToSet(w.orphans[p])
        BY DEF ListedIn
      <4>2. CASE p = parent
        <5>1. old = w.orphans[p]
          BY <4>2 DEF old, Waiting
        <5> QED BY <5>1, <4>1, <4>2, <2>2, <2>5, <2>6 DEF ListedIn
      <4>3. CASE p # parent
        BY <4>1, <4>3, <2>2, <2>6 DEF ListedIn
      <4> QED BY <4>2, <4>3
    <3>3. hash \in ListedIn(v)
      BY <2>2, <2>5, <2>6 DEF ListedIn
    <3> QED BY <3>1, <3>2, <3>3
  <2>8. IsFiniteSet(v.orphanHashes)
    BY <2>6, FS_AddElement DEF WaitFor
  <2>9. \A p \in DOMAIN v.orphans :
           /\ IsSeq(v.orphans[p]) /\ IsInjective(v.orphans[p])
           /\ \A h \in ToSet(v.orphans[p]) : PeerBlocks[h].previous_hash = p
    BY <2>2, <2>3, <2>5, <2>6 DEF WaitFor
  <2>10. WaitFor(v, {}, {})
    BY <2>2, <2>6, <2>7, <2>8, <2>9 DEF WaitFor
  <2> QED BY <2>10 DEF v
<1> QED BY <1>1, <1>2

\* Those that wait for a parent are listed under it alone.
LEMMA ListedUnderParent ==
    ASSUME NEW w, NEW left, NEW open, WaitFor(w, left, open), NEW h,
           PeerBlocks[h].previous_hash \notin DOMAIN w.orphans
    PROVE  h \notin ListedIn(w)
BY DEF WaitFor, ListedIn

\* An orphan is tried once its parent is there: it is stored, or forgotten.
LEMMA TriedWaits ==
    ASSUME NEW w, NEW left, NEW open, WaitFor(w, left, open), NEW hash \in left,
           PeerBlocks[hash].previous_hash \in DOMAIN w.blocks \ DOMAIN w.orphans, NEW synced
    PROVE  LET o == Offered(w, hash, PeerBlocks[hash], synced)
           IN  /\ WaitFor(o.w, left \ {hash}, IF o.accepted THEN open \cup {hash} ELSE open)
               /\ o.w.orphans = w.orphans
               /\ DOMAIN w.blocks \subseteq DOMAIN o.w.blocks
               /\ o.accepted \in BOOLEAN /\ (o.accepted => hash \in DOMAIN o.w.blocks)
               /\ Cardinality(o.w.orphanHashes) = Cardinality(w.orphanHashes) - 1
<1> DEFINE block   == PeerBlocks[hash]
           applied == AppliedTo(w, block)
           status  == Status(w, hash, block, applied)
           o       == Offered(w, hash, block, synced)
<1>1. /\ IsNode(w) /\ hash \notin ListedIn(w) /\ hash \in w.orphanHashes
      /\ IsFiniteSet(w.orphanHashes)
  BY ListedUnderParent DEF WaitFor
<1>2. status # "missing_parent"
  BY StatusCases
<1>3. /\ o.accepted = (status = "accepted")
      /\ status = "accepted" =>
            /\ Gains(o.w, w, hash, block, applied)
            /\ o.w.orphanHashes = w.orphanHashes \ {hash}
      /\ status \notin {"accepted", "missing_parent"} => o.w = Forget(w, hash)
  BY <1>1, OfferedCases
<1> HIDE DEF applied, status, o
<1>4. Cardinality(w.orphanHashes \ {hash}) = Cardinality(w.orphanHashes) - 1
  BY <1>1, FS_RemoveElement
<1>5. CASE status = "accepted"
  <2>1. /\ IsNode(o.w) /\ o.w.blocks = With(w.blocks, hash, block) /\ o.w.orphans = w.orphans
        /\ o.w.orphanHashes = w.orphanHashes \ {hash}
    BY <1>3, <1>5 DEF Gains
  <2>2. DOMAIN o.w.blocks = DOMAIN w.blocks \cup {hash}
    BY <2>1 DEF With
  <2>3. WaitFor(o.w, left \ {hash}, open \cup {hash})
    BY <1>1, <2>1, <2>2, GainsWait
  <2> QED BY <1>3, <1>4, <1>5, <2>1, <2>2, <2>3 DEF o, block
<1>6. CASE status # "accepted"
  <2>1. o.w = Forget(w, hash)
    BY <1>2, <1>3, <1>6
  <2>2. /\ o.w.blocks = w.blocks /\ o.w.orphans = w.orphans
        /\ o.w.orphanHashes = w.orphanHashes \ {hash}
    BY <1>1, <2>1, ForgetKeeps
  <2>3. WaitFor(o.w, left \ {hash}, open)
    BY <1>1, <2>1, ForgetWaits
  <2> QED BY <1>3, <1>4, <1>6, <2>2, <2>3 DEF o, block
<1> QED BY <1>5, <1>6

\* What PopParent has after n orphans, of f what it had before.
NextTried(run, parent, synced, f, n) ==
    IF n = 0
    THEN [w |-> WithoutParent(run.w, parent), stack |-> Front(run.stack)]
    ELSE Retry(f[n - 1], Waiting(run.w, parent)[n], synced)

\* The recursion of PopParent has a solution.
LEMMA PopParentSolves ==
    ASSUME NEW run, NEW parent, NEW synced, Len(Waiting(run.w, parent)) \in Nat
    PROVE  LET last == Len(Waiting(run.w, parent))
           IN  \E f : /\ f = [n \in 0 .. last |-> NextTried(run, parent, synced, f, n)]
                      /\ PopParent(run, parent, synced) = f[last]
<1> DEFINE last == Len(Waiting(run.w, parent))
           Next_(f, n) == NextTried(run, parent, synced, f, n)
           Solves(m, f) == f = [n \in 0 .. m |-> Next_(f, n)]
           Unsolved == {m \in Nat : ~\E f : Solves(m, f)}
<1>1. Unsolved = {}
  <2>1. SUFFICES ASSUME Unsolved # {} PROVE FALSE
    OBVIOUS
  <2>2. PICK m \in Unsolved : \A k \in Unsolved : m <= k
    <3> HIDE DEF Unsolved
    <3>1. Unsolved \in SUBSET Nat
      BY DEF Unsolved
    <3> QED BY <2>1, <3>1, LeastNatural
  <2>3. m \in Nat
    OBVIOUS
  <2>4. m # 0
    <3> DEFINE zero == [w |-> WithoutParent(run.w, parent), stack |-> Front(run.stack)]
               f0 == [n \in 0 .. 0 |-> zero]
    <3>1. \A n \in 0 .. 0 : Next_(f0, n) = zero
      <4> HIDE DEF f0
      <4> TAKE n \in 0 .. 0
      <4>1. n = 0
        OBVIOUS
      <4> QED BY <4>1 DEF NextTried
    <3> HIDE DEF Next_
    <3>2. Solves(0, f0)
      BY <3>1
    <3> QED BY <3>2
  <2>5. PICK g : Solves(m - 1, g)
    <3>1. m - 1 \in Nat /\ ~(m <= m - 1)
      BY <2>3, <2>4
    <3>2. m - 1 \notin Unsolved
      BY <3>1, <2>2
    <3> QED BY <3>1, <3>2
  <2> DEFINE f == [n \in 0 .. m |-> IF n = m THEN Next_(g, m) ELSE g[n]]
  <2>6. \A n \in 0 .. m : Next_(f, n) = Next_(g, n)
    <3> TAKE n \in 0 .. m
    <3>1. n # 0 => f[n - 1] = g[n - 1]
      BY <2>3
    <3> HIDE DEF f
    <3> QED BY <3>1 DEF NextTried
  <2>7. \A n \in 0 .. m - 1 : g[n] = Next_(g, n)
    <3> HIDE DEF Next_
    <3> QED BY <2>5
  <2>8. \A n \in 0 .. m : f[n] = Next_(f, n)
    <3> HIDE DEF Next_
    <3> QED BY <2>3, <2>6, <2>7
  <2>9. Solves(m, f)
    <3> HIDE DEF Next_
    <3> QED BY <2>8
  <2> QED BY <2>9
<1>2. PICK f : Solves(last, f)
  <2> HIDE DEF Next_
  <2> QED BY <1>1
<1> DEFINE h == CHOOSE f_1 : f_1 = [n \in 0 .. last |-> Next_(f_1, n)]
<1>3. PopParent(run, parent, synced) = h[last]
  BY DEF PopParent, NextTried
<1>4. h = [n \in 0 .. last |-> Next_(h, n)]
  <2> HIDE DEF Next_
  <2> QED BY <1>2
<1> HIDE DEF h
<1> QED BY <1>3, <1>4

\* The two ends of a stack.
LEMMA PoppedIsSeq ==
    ASSUME NEW s, IsSeq(s), s # << >>
    PROVE  /\ IsSeq(Front(s)) /\ Len(Front(s)) = Len(s) - 1 /\ Len(s) \in Nat \ {0}
           /\ Last(s) \in ToSet(s) /\ ToSet(Front(s)) \subseteq ToSet(s)
           /\ ToSet(s) \subseteq ToSet(Front(s)) \cup {Last(s)}
<1>1. PICK S : s \in Seq(S)
  BY DEF IsSeq
<1>2. /\ Front(s) \in Seq(S) /\ Len(Front(s)) = Len(s) - 1 /\ Len(s) \in Nat \ {0}
      /\ \A i \in 1 .. Len(s) - 1 : Front(s)[i] = s[i]
  <2>1. Len(s) \in Nat /\ Len(s) # 0
    BY <1>1
  <2> DEFINE m == Len(s) - 1
  <2>2. m \in Nat /\ m <= Len(s) /\ Front(s) = SubSeq(s, 1, m)
    BY <2>1 DEF Front
  <2> HIDE DEF m
  <2>3. /\ SubSeq(s, 1, m) \in Seq(S) /\ Len(SubSeq(s, 1, m)) = m
        /\ \A i \in 1 .. m : SubSeq(s, 1, m)[i] = s[i]
    BY <1>1, <2>1, <2>2
  <2> QED BY <2>1, <2>2, <2>3 DEF m
<1>3. /\ DOMAIN s = 1 .. Len(s) /\ DOMAIN Front(s) = 1 .. Len(s) - 1
  BY <1>1, <1>2
<1>4. Last(s) \in ToSet(s)
  BY <1>2, <1>3 DEF Last, ToSet
<1>5. ToSet(Front(s)) \subseteq ToSet(s)
  BY <1>2, <1>3 DEF ToSet
<1>6. ASSUME NEW x \in ToSet(s), x # Last(s)
      PROVE  x \in ToSet(Front(s))
  <2>1. PICK i \in 1 .. Len(s) : s[i] = x
    BY <1>3 DEF ToSet
  <2>2. i \in 1 .. Len(s) - 1
    BY <1>2, <1>6, <2>1 DEF Last
  <2> QED BY <1>2, <1>3, <2>1, <2>2 DEF ToSet
<1> QED BY <1>2, <1>4, <1>5, <1>6 DEF IsSeq

LEMMA PushedIsSeq ==
    ASSUME NEW s, IsSeq(s), NEW x
    PROVE  /\ IsSeq(Append(s, x)) /\ Len(Append(s, x)) = Len(s) + 1 /\ Len(s) \in Nat
           /\ ToSet(Append(s, x)) = ToSet(s) \cup {x}
<1> DEFINE t == Append(s, x)
<1>1. /\ IsSeq(t) /\ Len(s) \in Nat /\ DOMAIN s = 1 .. Len(s)
      /\ Len(t) = Len(s) + 1 /\ DOMAIN t = 1 .. Len(t)
      /\ \A i \in 1 .. Len(s) : t[i] = s[i]
      /\ t[Len(s) + 1] = x
  BY SeqLength, AppendIsSeq
<1> HIDE DEF t
<1>2. DOMAIN t = DOMAIN s \cup {Len(s) + 1}
  BY <1>1
<1>3. ToSet(t) = ToSet(s) \cup {x}
  BY <1>1, <1>2 DEF ToSet
<1> QED BY <1>1, <1>3 DEF t

LEMMA GrownIsReady ==
    ASSUME NEW w, Ready(w), NEW synced, NEW v, Grown(v, w, synced)
    PROVE  Ready(v)
BY DEF Ready, Grown, TellsPrivate

\* The blocks of peers are of the kinds the lemmas ask for.
LEMMA PeerBlocksAreBlocks ==
    ASSUME NEW hash \in DOMAIN PeerBlocks
    PROVE  /\ hash \in Hashes /\ IsSeq(PeerBlocks[hash].transactions)
           /\ ToSet(PeerBlocks[hash].transactions) \subseteq FromPeers
BY PeerBlocksAssumption DEF IsSeq, FromPeers

\* A node and the stack of the parents whose orphans are not tried yet.
Resolving(run, w, synced) ==
    /\ Grown(run.w, w, synced)
    /\ IsSeq(run.stack) /\ ToSet(run.stack) \subseteq DOMAIN run.w.blocks

\* How many parents and orphans there are to try, at most.
Left(run) == Len(run.stack) + Cardinality(run.w.orphanHashes)

\* The parent is taken off the lists and off the stack.
LEMMA PoppedWaits ==
    ASSUME NEW run, NEW w, Ready(w), NEW synced, Resolving(run, w, synced), run.stack # << >>,
           WaitFor(run.w, {}, ToSet(run.stack))
    PROVE  LET parent == Last(run.stack)
               t == [w |-> WithoutParent(run.w, parent), stack |-> Front(run.stack)]
           IN  /\ Resolving(t, w, synced)
               /\ WaitFor(t.w, ToSet(Waiting(run.w, parent)), ToSet(t.stack))
               /\ Left(t) = Left(run) - 1
               /\ parent \in DOMAIN t.w.blocks \ DOMAIN t.w.orphans
<1> DEFINE parent  == Last(run.stack)
           waiting == Waiting(run.w, parent)
           v       == WithoutParent(run.w, parent)
           stack   == Front(run.stack)
<1>1. /\ IsSeq(stack) /\ Len(stack) = Len(run.stack) - 1 /\ Len(run.stack) \in Nat
      /\ parent \in ToSet(run.stack) /\ ToSet(stack) \subseteq ToSet(run.stack)
      /\ ToSet(run.stack) \subseteq ToSet(stack) \cup {parent}
  BY PoppedIsSeq DEF Resolving
<1>2. Grown(run.w, w, synced) /\ Ready(run.w) /\ IsNode(run.w)
  BY GrownIsReady DEF Resolving, Ready, Sound
<1>3. /\ IsNode(v)
      /\ v.blocks = run.w.blocks /\ v.states = run.w.states /\ v.mainTip = run.w.mainTip
      /\ v.pending = run.w.pending /\ v.privateTip = run.w.privateTip
      /\ v.cancel = run.w.cancel /\ v.orphanHashes = run.w.orphanHashes
      /\ DOMAIN v.orphans = DOMAIN run.w.orphans \ {parent}
      /\ \A p \in DOMAIN v.orphans : v.orphans[p] = run.w.orphans[p]
  BY <1>2 DEF WithoutParent, IsNode, NowFields
<1>4. /\ parent \in DOMAIN run.w.orphans => waiting = run.w.orphans[parent]
      /\ parent \notin DOMAIN run.w.orphans => waiting = << >>
  BY DEF Waiting
<1> HIDE DEF parent, waiting, v, stack
<1>5. Grown(v, run.w, synced)
  BY <1>2, <1>3, SameGrows
<1>6. Grown(v, w, synced)
  BY <1>2, <1>5, GrowsOn
<1>7. parent \in DOMAIN v.blocks \ DOMAIN v.orphans
  BY <1>1, <1>3 DEF Resolving
<1>8. ListedIn(run.w) = ListedIn(v) \cup ToSet(waiting)
  <2>1. ToSet(<< >>) = {}
    BY DEF ToSet
  <2>2. \A h \in ListedIn(run.w) : h \in ListedIn(v) \cup ToSet(waiting)
    BY <1>3, <1>4 DEF ListedIn
  <2>3. \A h \in ListedIn(v) : h \in ListedIn(run.w)
    BY <1>3 DEF ListedIn
  <2>4. \A h \in ToSet(waiting) : h \in ListedIn(run.w)
    BY <1>4, <2>1 DEF ListedIn
  <2> QED BY <2>2, <2>3, <2>4
<1>9. v.orphanHashes = ListedIn(v) \cup ToSet(waiting)
  BY <1>3, <1>8 DEF WaitFor
<1>10. WaitFor(v, ToSet(waiting), ToSet(stack))
  <2>1. DOMAIN v.orphans \cap DOMAIN v.blocks \subseteq ToSet(stack)
    BY <1>1, <1>3 DEF WaitFor
  <2>2. DOMAIN v.orphans \subseteq MayBeParent \ {NoHash}
    BY <1>3 DEF WaitFor
  <2>3. /\ v.orphanHashes \cap DOMAIN v.blocks = {}
        /\ v.orphanHashes \subseteq DOMAIN PeerBlocks /\ IsFiniteSet(v.orphanHashes)
    BY <1>3 DEF WaitFor
  <2>4. \A p \in DOMAIN v.orphans :
           /\ IsSeq(v.orphans[p]) /\ IsInjective(v.orphans[p])
           /\ \A h \in ToSet(v.orphans[p]) : PeerBlocks[h].previous_hash = p
    BY <1>3 DEF WaitFor
  <2> QED BY <1>3, <1>9, <2>1, <2>2, <2>3, <2>4 DEF WaitFor
<1> DEFINE t == [w |-> v, stack |-> stack]
<1>11. Resolving(t, w, synced)
  BY <1>1, <1>3, <1>6 DEF Resolving
<1>12. Left(t) = Left(run) - 1
  <2> DEFINE card == Cardinality(run.w.orphanHashes)
  <2>1. card \in Nat
    BY FS_CardinalityType DEF WaitFor
  <2>2. /\ Left(t) = Len(stack) + card
        /\ Left(run) = Len(run.stack) + card
    BY <1>3 DEF Left
  <2> HIDE DEF card, t
  <2> QED BY <1>1, <2>1, <2>2
<1>13. /\ Resolving(t, w, synced) /\ Left(t) = Left(run) - 1
       /\ WaitFor(t.w, ToSet(waiting), ToSet(t.stack))
       /\ parent \in DOMAIN t.w.blocks \ DOMAIN t.w.orphans
  BY <1>7, <1>10, <1>11, <1>12
<1> QED BY <1>13 DEF parent, waiting, v, stack

\* One orphan after another that waits for parent, which is stored.
LEMMA RetryWaits ==
    ASSUME NEW t, NEW w, Ready(w), NEW synced \in BOOLEAN, Resolving(t, w, synced), NEW left,
           WaitFor(t.w, left, ToSet(t.stack)), NEW hash \in left,
           PeerBlocks[hash].previous_hash \in DOMAIN t.w.blocks \ DOMAIN t.w.orphans
    PROVE  LET u == Retry(t, hash, synced)
           IN  /\ Resolving(u, w, synced)
               /\ WaitFor(u.w, left \ {hash}, ToSet(u.stack))
               /\ Left(u) <= Left(t) /\ Left(u) \in Int
               /\ u.w.orphans = t.w.orphans /\ DOMAIN t.w.blocks \subseteq DOMAIN u.w.blocks
<1> DEFINE o == Offered(t.w, hash, PeerBlocks[hash], synced)
           u == Retry(t, hash, synced)
<1>1. /\ hash \in DOMAIN PeerBlocks
      /\ WaitFor(t.w, left, ToSet(t.stack)) /\ hash \in left
      /\ PeerBlocks[hash].previous_hash \in DOMAIN t.w.blocks \ DOMAIN t.w.orphans
  BY DEF WaitFor
<1>2. Ready(t.w)
  BY GrownIsReady DEF Resolving
<1>3. Grown(o.w, t.w, synced)
  BY <1>1, <1>2, PeerBlocksAreBlocks, OfferedGrows
<1>4. Grown(o.w, w, synced)
  BY <1>3, GrowsOn DEF Resolving
<1>5. /\ WaitFor(o.w, left \ {hash},
                 IF o.accepted THEN ToSet(t.stack) \cup {hash} ELSE ToSet(t.stack))
      /\ o.w.orphans = t.w.orphans
      /\ DOMAIN t.w.blocks \subseteq DOMAIN o.w.blocks
      /\ o.accepted \in BOOLEAN /\ (o.accepted => hash \in DOMAIN o.w.blocks)
      /\ Cardinality(o.w.orphanHashes) = Cardinality(t.w.orphanHashes) - 1
  BY ONLY <1>1, TriedWaits
<1>6. /\ u.w = o.w
      /\ u.stack = IF o.accepted THEN Append(t.stack, hash) ELSE t.stack
  BY DEF Retry, Retried
<1> HIDE DEF o, u
<1>7. /\ IsSeq(Append(t.stack, hash)) /\ Len(Append(t.stack, hash)) = Len(t.stack) + 1
      /\ ToSet(Append(t.stack, hash)) = ToSet(t.stack) \cup {hash} /\ Len(t.stack) \in Nat
  BY PushedIsSeq DEF Resolving
<1>8. /\ IsSeq(u.stack) /\ Len(u.stack) \in Nat /\ Len(u.stack) <= Len(t.stack) + 1
      /\ ToSet(u.stack) = IF o.accepted THEN ToSet(t.stack) \cup {hash} ELSE ToSet(t.stack)
  <2>1. CASE o.accepted
    BY <2>1, <1>6, <1>7
  <2>2. CASE ~o.accepted
    BY <2>2, <1>6, <1>7 DEF Resolving
  <2> QED BY <2>1, <2>2
<1>9. ToSet(u.stack) \subseteq DOMAIN u.w.blocks
  BY <1>5, <1>6, <1>8 DEF Resolving
<1>10. Left(u) <= Left(t) /\ Left(u) \in Int
  <2> DEFINE cardT == Cardinality(t.w.orphanHashes)
             cardU == Cardinality(u.w.orphanHashes)
  <2>1. cardT \in Nat /\ cardU \in Nat /\ cardU = cardT - 1
    BY <1>5, <1>6, FS_CardinalityType DEF WaitFor
  <2>2. Left(t) = Len(t.stack) + cardT /\ Left(u) = Len(u.stack) + cardU
    BY DEF Left
  <2> HIDE DEF cardT, cardU
  <2> QED BY <1>7, <1>8, <2>1, <2>2
<1>11. WaitFor(u.w, left \ {hash}, ToSet(u.stack))
  BY <1>5, <1>6, <1>8
<1>12. Resolving(u, w, synced)
  BY <1>4, <1>6, <1>8, <1>9 DEF Resolving
<1> QED BY <1>5, <1>6, <1>10, <1>11, <1>12 DEF u

LEMMA LeftIsInt ==
    ASSUME NEW t, IsSeq(t.stack), IsFiniteSet(t.w.orphanHashes)
    PROVE  Left(t) \in Int /\ Left(t) >= Len(t.stack)
<1>1. Len(t.stack) \in Nat /\ Cardinality(t.w.orphanHashes) \in Nat
  BY SeqLength, FS_CardinalityType
<1> QED BY <1>1 DEF Left

\* All of them: none is left that waits for a parent that is there.
LEMMA PopParentWaits ==
    ASSUME NEW run, NEW w, Ready(w), NEW synced \in BOOLEAN, Resolving(run, w, synced),
           run.stack # << >>, WaitFor(run.w, {}, ToSet(run.stack))
    PROVE  LET t == PopParent(run, Last(run.stack), synced)
           IN  /\ Resolving(t, w, synced)
               /\ WaitFor(t.w, {}, ToSet(t.stack))
               /\ Left(t) <= Left(run) - 1
<1> DEFINE parent  == Last(run.stack)
           waiting == Waiting(run.w, parent)
           last    == Len(waiting)
           rest(n) == {waiting[i] : i \in n + 1 .. last}
           first   == [w |-> WithoutParent(run.w, parent), stack |-> Front(run.stack)]
<1>1. /\ IsSeq(waiting) /\ IsInjective(waiting)
      /\ \A h \in ToSet(waiting) : PeerBlocks[h].previous_hash = parent
  <2>1. CASE parent \in DOMAIN run.w.orphans
    <3>1. waiting = run.w.orphans[parent]
      BY <2>1 DEF Waiting
    <3> QED BY <2>1, <3>1 DEF WaitFor
  <2>2. CASE parent \notin DOMAIN run.w.orphans
    <3>1. waiting = << >>
      BY <2>2 DEF Waiting
    <3> QED BY <3>1, EmptyIsSeq DEF IsInjective, ToSet
  <2> QED BY <2>1, <2>2
<1>2. last \in Nat /\ DOMAIN waiting = 1 .. last
  BY <1>1, SeqLength
<1>3. /\ Resolving(first, w, synced)
      /\ WaitFor(first.w, ToSet(waiting), ToSet(first.stack))
      /\ Left(first) = Left(run) - 1
      /\ parent \in DOMAIN first.w.blocks \ DOMAIN first.w.orphans
  BY PoppedWaits
<1>4. Left(run) \in Int
  BY LeftIsInt DEF Resolving, WaitFor
<1>5. PICK f : /\ f = [n \in 0 .. last |-> NextTried(run, parent, synced, f, n)]
               /\ PopParent(run, parent, synced) = f[last]
  BY <1>2, PopParentSolves
<1>6. \A n \in 0 .. last : f[n] = NextTried(run, parent, synced, f, n)
  BY <1>5
<1>7. \A n \in 0 .. last :
        IF n = 0 THEN f[n] = first ELSE f[n] = Retry(f[n - 1], waiting[n], synced)
  BY <1>6 DEF NextTried
<1> DEFINE At(n) == /\ Resolving(f[n], w, synced)
                    /\ WaitFor(f[n].w, rest(n), ToSet(f[n].stack))
                    /\ Left(f[n]) <= Left(run) - 1 /\ Left(f[n]) \in Int
                    /\ parent \in DOMAIN f[n].w.blocks \ DOMAIN f[n].w.orphans
           Held == {n \in 0 .. last : At(n)}
<1> HIDE DEF first
<1>8. At(0)
  <2>1. f[0] = first
    BY <1>2, <1>7
  <2>2. rest(0) = ToSet(waiting)
    BY <1>2 DEF ToSet
  <2>3. Left(first) \in Int
    BY <1>3, <1>4
  <2> HIDE DEF rest, waiting, parent
  <2> QED BY <1>3, <1>4, <2>1, <2>2, <2>3
<1>9. ASSUME NEW n \in 0 .. last, n # last, At(n)
      PROVE  At(n + 1)
  <2>1. n \in Nat /\ n + 1 \in 1 .. last /\ n + 1 \in 0 .. last /\ n + 1 # 0 /\ (n + 1) - 1 = n
    BY <1>2, <1>9
  <2> DEFINE hash == waiting[n + 1]
             u == f[n + 1]
  <2>2. u = Retry(f[n], hash, synced)
    BY <1>7, <2>1
  <2>3. /\ hash \in rest(n) /\ PeerBlocks[hash].previous_hash = parent
    <3>1. hash \in ToSet(waiting)
      BY <1>2, <2>1 DEF ToSet
    <3>2. n + 1 \in n + 1 .. last
      BY <2>1
    <3> QED BY <1>1, <3>1, <3>2
  <2>4. rest(n) \ {hash} = rest(n + 1)
    <3>1. ASSUME NEW i \in n + 1 .. last PROVE i = n + 1 \/ i \in (n + 1) + 1 .. last
      BY <2>1, <1>2
    <3>2. ASSUME NEW i \in (n + 1) + 1 .. last
          PROVE  i \in n + 1 .. last /\ waiting[i] # hash
      <4>1. i \in 1 .. last /\ i # n + 1
        BY <2>1, <1>2
      <4> QED BY <1>1, <1>2, <2>1, <4>1 DEF IsInjective
    <3> HIDE DEF waiting
    <3> QED BY <3>1, <3>2
  <2> HIDE DEF rest, hash, u, waiting, parent
  <2>5. /\ Resolving(f[n], w, synced) /\ WaitFor(f[n].w, rest(n), ToSet(f[n].stack))
        /\ PeerBlocks[hash].previous_hash \in DOMAIN f[n].w.blocks \ DOMAIN f[n].w.orphans
        /\ Left(f[n]) <= Left(run) - 1 /\ Left(f[n]) \in Int
    BY <1>9, <2>3
  <2>6. /\ Resolving(u, w, synced)
        /\ WaitFor(u.w, rest(n) \ {hash}, ToSet(u.stack))
        /\ Left(u) <= Left(f[n]) /\ Left(u) \in Int
        /\ u.w.orphans = f[n].w.orphans /\ DOMAIN f[n].w.blocks \subseteq DOMAIN u.w.blocks
    <3> DEFINE t == f[n]
               left == rest(n)
    <3>1. /\ Ready(w) /\ synced \in BOOLEAN /\ hash \in left
          /\ Resolving(t, w, synced) /\ WaitFor(t.w, left, ToSet(t.stack))
          /\ PeerBlocks[hash].previous_hash \in DOMAIN t.w.blocks \ DOMAIN t.w.orphans
      BY <2>3, <2>5
    <3>2. u = Retry(t, hash, synced)
      BY <2>2
    <3> HIDE DEF t, left
    <3>3. /\ Resolving(u, w, synced)
          /\ WaitFor(u.w, left \ {hash}, ToSet(u.stack))
          /\ Left(u) <= Left(t) /\ Left(u) \in Int
          /\ u.w.orphans = t.w.orphans /\ DOMAIN t.w.blocks \subseteq DOMAIN u.w.blocks
      <4>1. LET v == Retry(t, hash, synced)
            IN  /\ Resolving(v, w, synced)
                /\ WaitFor(v.w, left \ {hash}, ToSet(v.stack))
                /\ Left(v) <= Left(t) /\ Left(v) \in Int
                /\ v.w.orphans = t.w.orphans /\ DOMAIN t.w.blocks \subseteq DOMAIN v.w.blocks
        BY ONLY <3>1, RetryWaits, Zenon
      <4> QED BY ONLY <3>2, <4>1
    <3> QED BY <3>3 DEF t, left
  <2>7. Left(u) <= Left(run) - 1
    BY <1>4, <2>5, <2>6
  <2> QED BY <1>9, <2>4, <2>6, <2>7 DEF u
<1>10. 0 .. last \subseteq Held
  <2>1. 0 \in Held
    BY <1>2, <1>8
  <2>2. \A n \in 0 .. last : n # last /\ n \in Held => n + 1 \in Held
    <3> TAKE n \in 0 .. last
    <3> HIDE DEF At
    <3>1. n # last => n + 1 \in 0 .. last
      BY <1>2
    <3> QED BY <1>9, <3>1
  <2> HIDE DEF Held
  <2> QED BY <1>2, <2>1, <2>2, HoldsUpTo
<1>11. At(last) /\ rest(last) = {}
  <2>1. last \in 0 .. last /\ (last + 1 .. last) = {}
    BY <1>2
  <2> HIDE DEF At, last
  <2> QED BY <1>10, <2>1
<1> QED BY <1>5, <1>11

\* What ResolveOrphans has after n parents, of f what it had before.
NextResolved(w, hash, synced, f, n) ==
    CASE n = 0                              -> [w |-> w, stack |-> <<hash>>]
      [] n > 0 /\ f[n - 1].stack = << >> -> f[n - 1]
      [] OTHER -> PopParent(f[n - 1], Last(f[n - 1].stack), synced)

\* The recursion of ResolveOrphans has a solution.
LEMMA ResolveOrphansSolves ==
    ASSUME NEW w, NEW hash, NEW synced, Cardinality(w.orphanHashes) + 1 \in Nat
    PROVE  LET last == Cardinality(w.orphanHashes) + 1
           IN  \E f : /\ f = [n \in 0 .. last |-> NextResolved(w, hash, synced, f, n)]
                      /\ ResolveOrphans(w, hash, synced) = f[last].w
<1> DEFINE last == Cardinality(w.orphanHashes) + 1
           Next_(f, n) == NextResolved(w, hash, synced, f, n)
           Solves(m, f) == f = [n \in 0 .. m |-> Next_(f, n)]
           Unsolved == {m \in Nat : ~\E f : Solves(m, f)}
<1>1. Unsolved = {}
  <2>1. SUFFICES ASSUME Unsolved # {} PROVE FALSE
    OBVIOUS
  <2>2. PICK m \in Unsolved : \A k \in Unsolved : m <= k
    <3> HIDE DEF Unsolved
    <3>1. Unsolved \in SUBSET Nat
      BY DEF Unsolved
    <3> QED BY <2>1, <3>1, LeastNatural
  <2>3. m \in Nat
    OBVIOUS
  <2>4. m # 0
    <3> DEFINE zero == [w |-> w, stack |-> <<hash>>]
               f0 == [n \in 0 .. 0 |-> zero]
    <3>1. \A n \in 0 .. 0 : Next_(f0, n) = zero
      <4> HIDE DEF f0
      <4> TAKE n \in 0 .. 0
      <4>1. n = 0
        OBVIOUS
      <4> QED BY <4>1 DEF NextResolved
    <3> HIDE DEF Next_
    <3>2. Solves(0, f0)
      BY <3>1
    <3> QED BY <3>2
  <2>5. PICK g : Solves(m - 1, g)
    <3>1. m - 1 \in Nat /\ ~(m <= m - 1)
      BY <2>3, <2>4
    <3>2. m - 1 \notin Unsolved
      BY <3>1, <2>2
    <3> QED BY <3>1, <3>2
  <2> DEFINE f == [n \in 0 .. m |-> IF n = m THEN Next_(g, m) ELSE g[n]]
  <2>6. \A n \in 0 .. m : Next_(f, n) = Next_(g, n)
    <3> TAKE n \in 0 .. m
    <3>1. n # 0 => f[n - 1] = g[n - 1]
      BY <2>3
    <3> HIDE DEF f
    <3> QED BY <3>1 DEF NextResolved
  <2>7. \A n \in 0 .. m - 1 : g[n] = Next_(g, n)
    <3> HIDE DEF Next_
    <3> QED BY <2>5
  <2>8. \A n \in 0 .. m : f[n] = Next_(f, n)
    <3> HIDE DEF Next_
    <3> QED BY <2>3, <2>6, <2>7
  <2>9. Solves(m, f)
    <3> HIDE DEF Next_
    <3> QED BY <2>8
  <2> QED BY <2>9
<1>2. PICK f : Solves(last, f)
  <2> HIDE DEF Next_
  <2> QED BY <1>1
<1> DEFINE h == CHOOSE f_1 : f_1 = [n \in 0 .. last |-> Next_(f_1, n)]
<1>3. ResolveOrphans(w, hash, synced) = h[last].w
  BY DEF ResolveOrphans, NextResolved
<1>4. h = [n \in 0 .. last |-> Next_(h, n)]
  <2> HIDE DEF Next_
  <2> QED BY <1>2
<1> HIDE DEF h
<1> QED BY <1>3, <1>4

\* The descendants of a block among the orphans: the stack is empty in the end.
LEMMA ResolveOrphansWaits ==
    ASSUME NEW w, Ready(w), NEW synced \in BOOLEAN, NEW v, Grown(v, w, synced),
           NEW hash \in DOMAIN v.blocks, WaitFor(v, {}, {hash})
    PROVE  LET r == ResolveOrphans(v, hash, synced)
           IN  Grown(r, w, synced) /\ WaitFor(r, {}, {})
<1> DEFINE first == [w |-> v, stack |-> <<hash>>]
           last  == Cardinality(v.orphanHashes) + 1
<1>1. /\ IsSeq(first.stack) /\ ToSet(first.stack) = {hash} /\ Len(first.stack) = 1
  <2>1. <<hash>> \in Seq({hash}) /\ Len(<<hash>>) = 1 /\ <<hash>>[1] = hash
    OBVIOUS
  <2>2. DOMAIN <<hash>> = 1 .. 1
    OBVIOUS
  <2>3. ToSet(<<hash>>) = {hash}
    BY <2>1, <2>2 DEF ToSet
  <2> QED BY <2>1, <2>3 DEF IsSeq
<1>2. /\ last \in Nat /\ Left(first) = last
  BY <1>1, FS_CardinalityType DEF WaitFor, Left
<1>3. Resolving(first, w, synced) /\ WaitFor(first.w, {}, ToSet(first.stack))
  BY <1>1 DEF Resolving
<1>4. PICK f : /\ f = [n \in 0 .. last |-> NextResolved(v, hash, synced, f, n)]
               /\ ResolveOrphans(v, hash, synced) = f[last].w
  BY <1>2, ResolveOrphansSolves
<1>5. \A n \in 0 .. last : f[n] = NextResolved(v, hash, synced, f, n)
  BY <1>4
<1> DEFINE At(n) == /\ Resolving(f[n], w, synced)
                    /\ WaitFor(f[n].w, {}, ToSet(f[n].stack))
                    /\ f[n].stack # << >> => Left(f[n]) <= last - n
           Held == {n \in 0 .. last : At(n)}
<1>6. At(0)
  <2>1. f[0] = first
    BY <1>2, <1>5 DEF NextResolved
  <2> HIDE DEF first, last
  <2> QED BY <1>2, <1>3, <2>1
<1> HIDE DEF first, last
<1>7. ASSUME NEW n \in 0 .. last, n # last, At(n)
      PROVE  At(n + 1)
  <2>1. n \in Nat /\ n + 1 \in 0 .. last /\ n + 1 > 0 /\ n + 1 # 0 /\ (n + 1) - 1 = n
    BY <1>2, <1>7
  <2>2. f[n + 1] = NextResolved(v, hash, synced, f, n + 1)
    BY <1>5, <2>1
  <2> DEFINE run == f[n]
             t   == PopParent(run, Last(run.stack), synced)
  <2>3. CASE run.stack = << >>
    <3>1. f[n + 1] = run
      BY <2>1, <2>2, <2>3 DEF NextResolved
    <3> QED BY <1>7, <2>3, <3>1
  <2>4. CASE run.stack # << >>
    <3>1. f[n + 1] = t
      BY <2>1, <2>2, <2>4 DEF NextResolved
    <3>2. /\ Ready(w) /\ synced \in BOOLEAN /\ Resolving(run, w, synced)
          /\ run.stack # << >> /\ WaitFor(run.w, {}, ToSet(run.stack))
          /\ Left(run) <= last - n
      BY <1>7, <2>4
    <3> HIDE DEF run
    <3>3. /\ Resolving(t, w, synced)
          /\ WaitFor(t.w, {}, ToSet(t.stack))
          /\ Left(t) <= Left(run) - 1
      BY ONLY <3>2, PopParentWaits, Zenon
    <3> HIDE DEF t
    <3>4. Left(t) \in Int /\ Left(run) \in Int
      BY <3>2, <3>3, LeftIsInt DEF Resolving, WaitFor
    <3>5. Left(t) <= last - (n + 1)
      BY <1>2, <2>1, <3>2, <3>3, <3>4
    <3> QED BY <3>1, <3>3, <3>5
  <2> QED BY <2>3, <2>4
<1>8. 0 .. last \subseteq Held
  <2>1. 0 \in Held
    BY <1>2, <1>6
  <2>2. \A n \in 0 .. last : n # last /\ n \in Held => n + 1 \in Held
    <3> TAKE n \in 0 .. last
    <3> HIDE DEF At
    <3>1. n # last => n + 1 \in 0 .. last
      BY <1>2
    <3> QED BY <1>7, <3>1
  <2> HIDE DEF Held
  <2> QED BY <1>2, <2>1, <2>2, HoldsUpTo
<1>9. At(last)
  <2>1. last \in 0 .. last
    BY <1>2
  <2> HIDE DEF At
  <2> QED BY <1>8, <2>1
<1> DEFINE run == f[last]
<1>10. run.stack = << >>
  <2> SUFFICES ASSUME run.stack # << >> PROVE FALSE
    OBVIOUS
  <2>1. IsSeq(run.stack) /\ IsFiniteSet(run.w.orphanHashes) /\ Left(run) <= 0
    BY <1>2, <1>9 DEF Resolving, WaitFor
  <2> HIDE DEF run
  <2>2. Left(run) \in Int /\ Left(run) >= Len(run.stack) /\ Len(run.stack) \in Nat \ {0}
    BY <2>1, LeftIsInt, PoppedIsSeq
  <2> QED BY <2>1, <2>2
<1>11. ToSet(run.stack) = {}
  BY <1>10 DEF ToSet
<1> QED BY <1>4, <1>9, <1>11 DEF Resolving

\* What becomes of a block of a peer that arrives, and of the orphans.
LEMMA AcceptOrStoreWaits ==
    ASSUME NEW w, Ready(w), WaitFor(w, {}, {}), NEW synced \in BOOLEAN,
           NEW hash \in DOMAIN PeerBlocks,
           PeerBlocks[hash].previous_hash \in MayBeParent \cup {NoHash}
    PROVE  LET o == AcceptOrStore(w, hash, PeerBlocks[hash], synced)
           IN  /\ Grown(o.w, w, synced) /\ WaitFor(o.w, {}, {})
               /\ o.accepted \in BOOLEAN
               /\ ~o.accepted => /\ o.w.blocks = w.blocks /\ o.w.mainTip = w.mainTip
                                 /\ o.w.pending = w.pending
<1> DEFINE block   == PeerBlocks[hash]
           applied == AppliedTo(w, block)
           status  == Status(w, hash, block, applied)
           o       == Offered(w, hash, block, synced)
           r       == AcceptOrStore(w, hash, block, synced)
<1>1. /\ IsNode(w) /\ IsFiniteSet(w.orphanHashes)
      /\ NoHash \notin DOMAIN w.blocks
  BY NoHashAssumption DEF WaitFor, Ready, Sound, TypesOf
<1>2. Grown(o.w, w, synced)
  BY PeerBlocksAreBlocks, OfferedGrows
<1>3. /\ o.accepted = (status = "accepted")
      /\ status = "accepted" =>
            /\ Gains(o.w, w, hash, block, applied)
            /\ o.w.orphanHashes = w.orphanHashes \ {hash}
      /\ status = "missing_parent" => o.w = StoreOrphan(w, hash, block.previous_hash)
      /\ status \notin {"accepted", "missing_parent"} => o.w = Forget(w, hash)
  BY <1>1, OfferedCases
<1>4. /\ hash \in DOMAIN w.blocks => status = "duplicate"
      /\ status = "missing_parent" <=>
            hash \notin DOMAIN w.blocks
            /\ block.previous_hash \notin DOMAIN w.blocks \cup {NoHash}
      /\ status = "accepted" => hash \notin DOMAIN w.blocks
  BY StatusCases
<1>5. r = IF o.accepted THEN [o EXCEPT !.w = ResolveOrphans(@, hash, synced)] ELSE o
  BY DEF AcceptOrStore, WithDescendants
<1>6. o.accepted \in BOOLEAN /\ DOMAIN o = {"accepted", "w"}
  BY <1>3 DEF Offered, OfferedWith, OfferedAs
<1> HIDE DEF applied, status, o, r
<1>7. CASE status = "accepted"
  <2>1. DOMAIN o.w.blocks = DOMAIN w.blocks \cup {hash} /\ IsNode(o.w)
        /\ o.w.orphans = w.orphans /\ o.w.orphanHashes = w.orphanHashes \ {hash}
    BY <1>3, <1>7 DEF Gains, With
  <2>2. hash \notin ListedIn(w)
    <3>1. block.previous_hash \in DOMAIN w.blocks \cup {NoHash}
      BY <1>4, <1>7
    <3>2. block.previous_hash \notin DOMAIN w.orphans
      BY <3>1 DEF WaitFor
    <3> QED BY <3>2, ListedUnderParent
  <2>3. WaitFor(o.w, {}, {hash})
    <3>1. WaitFor(o.w, {} \ {hash}, {} \cup {hash})
      BY <2>1, <2>2, GainsWait
    <3>2. {} \ {hash} = {} /\ {} \cup {hash} = {hash}
      OBVIOUS
    <3> QED BY <3>1, <3>2
  <2>4. hash \in DOMAIN o.w.blocks
    BY <2>1
  <2> DEFINE v == ResolveOrphans(o.w, hash, synced)
  <2>5. Grown(v, w, synced) /\ WaitFor(v, {}, {})
    BY <1>2, <2>3, <2>4, ResolveOrphansWaits
  <2>6. r.w = v /\ r.accepted = o.accepted /\ o.accepted
    BY <1>3, <1>5, <1>6, <1>7
  <2> HIDE DEF v
  <2>7. Grown(r.w, w, synced) /\ WaitFor(r.w, {}, {}) /\ r.accepted
    BY <2>5, <2>6
  <2> QED BY <2>7 DEF r, block
<1>8. CASE status # "accepted"
  <2>1. r = o /\ ~o.accepted
    BY <1>3, <1>5, <1>8
  <2>2. /\ WaitFor(o.w, {}, {})
        /\ o.w.blocks = w.blocks /\ o.w.mainTip = w.mainTip /\ o.w.pending = w.pending
    <3>1. CASE status = "missing_parent"
      <4>1. /\ hash \notin DOMAIN w.blocks
            /\ block.previous_hash \notin DOMAIN w.blocks \cup {NoHash}
            /\ o.w = StoreOrphan(w, hash, block.previous_hash)
        BY <1>3, <1>4, <3>1
      <4>2. block.previous_hash \in MayBeParent \ {NoHash}
        BY <4>1
      <4>3. WaitFor(StoreOrphan(w, hash, block.previous_hash), {}, {})
        BY <4>1, <4>2, StoreOrphanWaits
      <4>4. /\ StoreOrphan(w, hash, block.previous_hash).blocks = w.blocks
            /\ StoreOrphan(w, hash, block.previous_hash).mainTip = w.mainTip
            /\ StoreOrphan(w, hash, block.previous_hash).pending = w.pending
        BY <1>1 DEF StoreOrphan, IsNode, NowFields
      <4> QED BY <4>1, <4>3, <4>4
    <3>2. CASE status # "missing_parent"
      <4>1. /\ o.w = Forget(w, hash)
            /\ hash \in DOMAIN w.blocks
               \/ block.previous_hash \in DOMAIN w.blocks \cup {NoHash}
        BY <1>3, <1>4, <1>8, <3>2
      <4>2. hash \notin ListedIn(w)
        <5>1. CASE hash \in DOMAIN w.blocks
          BY <5>1 DEF WaitFor
        <5>2. CASE block.previous_hash \in DOMAIN w.blocks \cup {NoHash}
          <6>1. block.previous_hash \notin DOMAIN w.orphans
            BY <5>2 DEF WaitFor
          <6> QED BY <6>1, ListedUnderParent
        <5> QED BY <4>1, <5>1, <5>2
      <4>3. WaitFor(Forget(w, hash), {} \ {hash}, {})
        BY <4>2, ForgetWaits
      <4>4. {} \ {hash} = {}
        OBVIOUS
      <4>5. /\ Forget(w, hash).blocks = w.blocks /\ Forget(w, hash).mainTip = w.mainTip
            /\ Forget(w, hash).pending = w.pending
        BY <1>1, ForgetKeeps
      <4> QED BY <4>1, <4>3, <4>4, <4>5
    <3> QED BY <3>1, <3>2
  <2>3. /\ Grown(r.w, w, synced) /\ WaitFor(r.w, {}, {}) /\ r.accepted \in BOOLEAN
        /\ r.w.blocks = w.blocks /\ r.w.mainTip = w.mainTip /\ r.w.pending = w.pending
    BY <1>2, <1>6, <2>1, <2>2
  <2> QED BY <2>3 DEF r, block
<1> QED BY <1>7, <1>8

\* What Imported has after n blocks, of f what it had before.
NextImported(w, chunk, f, n) ==
    IF n = 0 THEN [w |-> w, accepted |-> FALSE] ELSE Import(f[n - 1], chunk[n])

\* The recursion of Imported has a solution.
LEMMA ImportedSolves ==
    ASSUME NEW w, NEW chunk, Len(chunk) \in Nat
    PROVE  LET last == Len(chunk)
           IN  \E f : /\ f = [n \in 0 .. last |-> NextImported(w, chunk, f, n)]
                      /\ Imported(w, chunk) = f[last]
<1> DEFINE last == Len(chunk)
           Next_(f, n) == NextImported(w, chunk, f, n)
           Solves(m, f) == f = [n \in 0 .. m |-> Next_(f, n)]
           Unsolved == {m \in Nat : ~\E f : Solves(m, f)}
<1>1. Unsolved = {}
  <2>1. SUFFICES ASSUME Unsolved # {} PROVE FALSE
    OBVIOUS
  <2>2. PICK m \in Unsolved : \A k \in Unsolved : m <= k
    <3> HIDE DEF Unsolved
    <3>1. Unsolved \in SUBSET Nat
      BY DEF Unsolved
    <3> QED BY <2>1, <3>1, LeastNatural
  <2>3. m \in Nat
    OBVIOUS
  <2>4. m # 0
    <3> DEFINE zero == [w |-> w, accepted |-> FALSE]
               f0 == [n \in 0 .. 0 |-> zero]
    <3>1. \A n \in 0 .. 0 : Next_(f0, n) = zero
      <4> HIDE DEF f0
      <4> TAKE n \in 0 .. 0
      <4>1. n = 0
        OBVIOUS
      <4> QED BY <4>1 DEF NextImported
    <3> HIDE DEF Next_
    <3>2. Solves(0, f0)
      BY <3>1
    <3> QED BY <3>2
  <2>5. PICK g : Solves(m - 1, g)
    <3>1. m - 1 \in Nat /\ ~(m <= m - 1)
      BY <2>3, <2>4
    <3>2. m - 1 \notin Unsolved
      BY <3>1, <2>2
    <3> QED BY <3>1, <3>2
  <2> DEFINE f == [n \in 0 .. m |-> IF n = m THEN Next_(g, m) ELSE g[n]]
  <2>6. \A n \in 0 .. m : Next_(f, n) = Next_(g, n)
    <3> TAKE n \in 0 .. m
    <3>1. n # 0 => f[n - 1] = g[n - 1]
      BY <2>3
    <3> HIDE DEF f
    <3> QED BY <3>1 DEF NextImported
  <2>7. \A n \in 0 .. m - 1 : g[n] = Next_(g, n)
    <3> HIDE DEF Next_
    <3> QED BY <2>5
  <2>8. \A n \in 0 .. m : f[n] = Next_(f, n)
    <3> HIDE DEF Next_
    <3> QED BY <2>3, <2>6, <2>7
  <2>9. Solves(m, f)
    <3> HIDE DEF Next_
    <3> QED BY <2>8
  <2> QED BY <2>9
<1>2. PICK f : Solves(last, f)
  <2> HIDE DEF Next_
  <2> QED BY <1>1
<1> DEFINE h == CHOOSE f_1 : f_1 = [n \in 0 .. last |-> Next_(f_1, n)]
<1>3. Imported(w, chunk) = h[last]
  BY DEF Imported, NextImported
<1>4. h = [n \in 0 .. last |-> Next_(h, n)]
  <2> HIDE DEF Next_
  <2> QED BY <1>2
<1> HIDE DEF h
<1> QED BY <1>3, <1>4

\* A node that has grown by some of the blocks of a chunk, or by none.
ImportedFrom(acc, w) ==
    /\ Grown(acc.w, w, TRUE) /\ WaitFor(acc.w, {}, {})
    /\ acc.accepted \in BOOLEAN
    /\ ~acc.accepted => /\ acc.w.blocks = w.blocks /\ acc.w.mainTip = w.mainTip
                        /\ acc.w.pending = w.pending

LEMMA ImportGoesOn ==
    ASSUME NEW w, Ready(w), NEW acc, ImportedFrom(acc, w), NEW hash \in DOMAIN PeerBlocks,
           PeerBlocks[hash].previous_hash \in MayBeParent \cup {NoHash}
    PROVE  ImportedFrom(Import(acc, hash), w)
<1> DEFINE o == AcceptOrStore(acc.w, hash, PeerBlocks[hash], TRUE)
           r == Import(acc, hash)
<1>1. CASE hash \in DOMAIN acc.w.blocks
  BY <1>1 DEF Import
<1>2. CASE hash \notin DOMAIN acc.w.blocks
  <2>1. Ready(acc.w) /\ Grown(acc.w, w, TRUE) /\ WaitFor(acc.w, {}, {})
    BY GrownIsReady DEF ImportedFrom
  <2>2. /\ Grown(o.w, acc.w, TRUE) /\ WaitFor(o.w, {}, {})
        /\ o.accepted \in BOOLEAN
        /\ ~o.accepted => /\ o.w.blocks = acc.w.blocks /\ o.w.mainTip = acc.w.mainTip
                          /\ o.w.pending = acc.w.pending
    BY <2>1, AcceptOrStoreWaits
  <2>3. r.w = o.w /\ r.accepted = (acc.accepted \/ o.accepted)
    BY <1>2 DEF Import, WithOffered
  <2> HIDE DEF o, r
  <2>4. Grown(o.w, w, TRUE)
    BY <2>1, <2>2, GrowsOn
  <2>5. r.accepted \in BOOLEAN
    BY <2>2, <2>3 DEF ImportedFrom
  <2>6. ~r.accepted => /\ r.w.blocks = w.blocks /\ r.w.mainTip = w.mainTip
                       /\ r.w.pending = w.pending
    BY <2>2, <2>3 DEF ImportedFrom
  <2>7. ImportedFrom(r, w)
    BY <2>2, <2>3, <2>4, <2>5, <2>6 DEF ImportedFrom
  <2> QED BY <2>7 DEF r
<1> QED BY <1>1, <1>2

\* What becomes of a chunk that arrives.
LEMMA ImportedWaits ==
    ASSUME NEW w, Ready(w), WaitFor(w, {}, {}), NEW chunk \in Seq(DOMAIN PeerBlocks),
           \A i \in DOMAIN chunk :
              PeerBlocks[chunk[i]].previous_hash \in MayBeParent \cup {NoHash}
    PROVE  ImportedFrom(Imported(w, chunk), w)
<1> DEFINE last == Len(chunk)
<1>1. last \in Nat /\ DOMAIN chunk = 1 .. last
  OBVIOUS
<1>2. PICK f : /\ f = [n \in 0 .. last |-> NextImported(w, chunk, f, n)]
               /\ Imported(w, chunk) = f[last]
  BY <1>1, ImportedSolves
<1>3. \A n \in 0 .. last : f[n] = NextImported(w, chunk, f, n)
  BY <1>2
<1> HIDE DEF last
<1> DEFINE Held == {n \in 0 .. last : ImportedFrom(f[n], w)}
<1>4. 0 \in Held
  <2>1. f[0].w = w /\ f[0].accepted = FALSE
    <3>1. f[0] = NextImported(w, chunk, f, 0)
      BY <1>1, <1>3
    <3>2. f[0] = [w |-> w, accepted |-> FALSE]
      BY <3>1 DEF NextImported
    <3> QED BY <3>2
  <2>2. Grown(w, w, TRUE)
    BY SameGrows DEF Ready, Sound
  <2>3. ImportedFrom(f[0], w)
    BY <2>1, <2>2 DEF ImportedFrom
  <2> QED BY <1>1, <2>3
<1>5. ASSUME NEW n \in 0 .. last, n # last, n \in Held
      PROVE  n + 1 \in Held
  <2>1. n + 1 \in 0 .. last /\ n + 1 \in DOMAIN chunk /\ n + 1 # 0 /\ (n + 1) - 1 = n
    BY <1>1, <1>5
  <2>2. f[n + 1] = Import(f[n], chunk[n + 1])
    BY <1>3, <2>1 DEF NextImported
  <2>3. /\ chunk[n + 1] \in DOMAIN PeerBlocks
        /\ PeerBlocks[chunk[n + 1]].previous_hash \in MayBeParent \cup {NoHash}
    BY <2>1
  <2>4. ImportedFrom(f[n], w)
    BY <1>5
  <2> DEFINE acc  == f[n]
             hash == chunk[n + 1]
  <2>5. /\ Ready(w) /\ ImportedFrom(acc, w) /\ hash \in DOMAIN PeerBlocks
        /\ PeerBlocks[hash].previous_hash \in MayBeParent \cup {NoHash}
    BY <2>3, <2>4
  <2> HIDE DEF acc, hash
  <2>6. ImportedFrom(Import(acc, hash), w)
    BY ONLY <2>5, ImportGoesOn, Zenon
  <2> QED BY <2>1, <2>2, <2>6 DEF acc, hash
<1>6. last \in Held
  <2> HIDE DEF Held
  <2>1. 0 .. last \subseteq Held
    BY <1>1, <1>4, <1>5, HoldsUpTo
  <2> QED BY <1>1, <2>1
<1> QED BY <1>2, <1>6

----------------------------------------------------------------------------
(* The file, and the node that starts from it.                             *)

IsFile(file) ==
    /\ file.chain \in Seq(Hashes) /\ DOMAIN file.blocks = ToSet(file.chain)
    /\ \A h \in DOMAIN file.blocks : IsSeq(file.blocks[h].transactions)
    /\ IsSeq(file.pending)

LEMMA FileOfIsFile ==
    ASSUME NEW w, Sound(w), w.mainTip # NoHash
    PROVE  IsFile(FileOf(w))
<1> DEFINE chain == ChainTo(w.blocks, w.mainTip)
<1>1. w.mainTip \in DOMAIN w.blocks
  BY DEF Sound, TipOf
<1>2. chain \in Seq(DOMAIN w.blocks)
  BY <1>1, SoundIsTree, ChainsGrow
<1>3. /\ FileOf(w).chain = chain /\ FileOf(w).pending = w.pending
      /\ FileOf(w).blocks = [h \in ToSet(chain) |-> w.blocks[h]]
  BY DEF FileOf
<1> HIDE DEF chain
<1>4. ToSet(chain) \subseteq DOMAIN w.blocks /\ DOMAIN w.blocks \subseteq Hashes
  BY <1>2 DEF ToSet, Sound, TypesOf
<1>5. chain \in Seq(Hashes)
  BY <1>2, <1>4
<1> QED BY <1>3, <1>4, <1>5 DEF IsFile, Sound, TypesOf

\* A node without orphans.
LEMMA NobodyWaits ==
    ASSUME NEW w, IsNode(w), w.orphans = << >>, w.orphanHashes = {}
    PROVE  WaitFor(w, {}, {})
<1>1. DOMAIN w.orphans = {}
  OBVIOUS
<1>2. ListedIn(w) = {}
  BY <1>1 DEF ListedIn
<1>3. IsFiniteSet({})
  BY FS_EmptySet
<1> QED BY <1>1, <1>2, <1>3 DEF WaitFor

LEMMA EmptyIsSound == Sound(EmptyNode)
<1>1. /\ IsNode(EmptyNode) /\ DOMAIN EmptyNode.blocks = {} /\ DOMAIN EmptyNode.states = {}
      /\ EmptyNode.mainTip = NoHash /\ EmptyNode.pending = << >>
  BY DEF EmptyNode, IsNode, NowFields
<1> QED BY <1>1, EmptyIsSeq DEF Sound, TypesOf, TreeOf, TipOf, ReplayOf

\* The genesis block on an empty chain.
LEMMA FreshIsSound ==
    /\ Sound(FreshNode) /\ FreshNode.mainTip = GenesisHash /\ FreshNode.pending = << >>
    /\ FreshNode.orphans = << >> /\ FreshNode.orphanHashes = {}
    /\ FreshNode.privateTip = NoHash /\ DOMAIN FreshNode.blocks = {GenesisHash}
    /\ PoolOk(FreshNode)
<1> DEFINE block   == GenesisBlock
           applied == AppliedTo(EmptyNode, block)
           status  == Status(EmptyNode, GenesisHash, block, applied)
           v       == FreshNode
<1>1. /\ block.block_id = 0 /\ block.previous_hash = NoHash
      /\ block.transactions = << >> /\ block.work = GenesisDifficultyBits
  BY DEF GenesisBlock
<1>2. /\ DOMAIN EmptyNode.blocks = {} /\ EmptyNode.mainTip = NoHash
      /\ EmptyNode.pending = << >> /\ EmptyNode.orphans = << >>
      /\ EmptyNode.orphanHashes = {} /\ EmptyNode.privateTip = NoHash
  BY DEF EmptyNode
<1>3. applied.ok
  <2>1. DOMAIN EmptyNode.states = {}
    BY DEF EmptyNode
  <2>2. applied = AppliedBlock(block, EmptyLedger)
    BY <1>1, <2>1 DEF AppliedTo
  <2>3. applied = ApplyInOrder(<< >>, EmptyLedger, 0)
    BY <1>1, <2>2 DEF AppliedBlock
  <2> QED BY <2>3, ApplyNothing
<1> HIDE DEF applied, block
<1>4. IsWellFormed(block)
  <2>1. Len(block.transactions) \in 0 .. MaxBlockTransactions
    BY <1>1, BlockSizeAssumption
  <2>2. RewardIsFirst(block)
    BY <1>1 DEF RewardIsFirst
  <2>3. HasProofOfWork(block)
    BY <1>1, DifficultyAssumption DEF HasProofOfWork, RequiredBits
  <2> QED BY <2>1, <2>2, <2>3 DEF IsWellFormed
<1>5. ExtendsParentIn(EmptyNode, block) /\ ClaimsItsFees(block, applied)
  BY <1>1, <1>2, <1>3 DEF ExtendsParentIn, IsGenesis, ClaimsItsFees
<1>6. status = "accepted"
  BY <1>1, <1>2, <1>4, <1>5, StatusCases
<1> HIDE DEF status
<1>7. FreshNode = StoredIn(EmptyNode, GenesisHash, block, applied)
  BY DEF FreshNode, block, applied
<1>8. /\ Gains(v, EmptyNode, GenesisHash, block, applied)
      /\ v.orphanHashes = {} /\ v.pending = << >> /\ v.privateTip = NoHash
  BY <1>2, <1>7, EmptyIsSound, StoredGains DEF Sound
<1>9. GenesisHash \in Hashes /\ IsSeq(block.transactions) /\ IsSeq(v.pending)
  BY <1>1, <1>8, EmptyIsSeq, GenesisHashAssumption
<1>10. /\ Sound(v) /\ DOMAIN v.blocks = {} \cup {GenesisHash}
  BY <1>2, <1>6, <1>8, <1>9, EmptyIsSound, GainsIsSound DEF status, applied
<1>11. v.mainTip = GenesisHash
  BY <1>2, <1>8 DEF Gains, BecomesTipOf
<1>12. PoolOk(v)
  BY <1>8, ApplyNothing DEF PoolOk, PoolOn
<1> QED BY <1>2, <1>8, <1>10, <1>11, <1>12 DEF Gains

\* What LoadedBlocks has after n blocks, of f what it had before.
NextLoaded(file, f, n) ==
    IF n = 0
    THEN [ok |-> TRUE, w |-> EmptyNode]
    ELSE LoadNext(f[n - 1], file.chain[n], file.blocks[file.chain[n]])

\* The recursion of LoadedBlocks has a solution.
LEMMA LoadedBlocksSolves ==
    ASSUME NEW file, Len(file.chain) \in Nat
    PROVE  LET last == Len(file.chain)
           IN  \E f : /\ f = [n \in 0 .. last |-> NextLoaded(file, f, n)]
                      /\ LoadedBlocks(file) = f[last]
<1> DEFINE last == Len(file.chain)
           Next_(f, n) == NextLoaded(file, f, n)
           Solves(m, f) == f = [n \in 0 .. m |-> Next_(f, n)]
           Unsolved == {m \in Nat : ~\E f : Solves(m, f)}
<1>1. Unsolved = {}
  <2>1. SUFFICES ASSUME Unsolved # {} PROVE FALSE
    OBVIOUS
  <2>2. PICK m \in Unsolved : \A k \in Unsolved : m <= k
    <3> HIDE DEF Unsolved
    <3>1. Unsolved \in SUBSET Nat
      BY DEF Unsolved
    <3> QED BY <2>1, <3>1, LeastNatural
  <2>3. m \in Nat
    OBVIOUS
  <2>4. m # 0
    <3> DEFINE zero == [ok |-> TRUE, w |-> EmptyNode]
               f0 == [n \in 0 .. 0 |-> zero]
    <3>1. \A n \in 0 .. 0 : Next_(f0, n) = zero
      <4> HIDE DEF f0
      <4> TAKE n \in 0 .. 0
      <4>1. n = 0
        OBVIOUS
      <4> QED BY <4>1 DEF NextLoaded
    <3> HIDE DEF Next_
    <3>2. Solves(0, f0)
      BY <3>1
    <3> QED BY <3>2
  <2>5. PICK g : Solves(m - 1, g)
    <3>1. m - 1 \in Nat /\ ~(m <= m - 1)
      BY <2>3, <2>4
    <3>2. m - 1 \notin Unsolved
      BY <3>1, <2>2
    <3> QED BY <3>1, <3>2
  <2> DEFINE f == [n \in 0 .. m |-> IF n = m THEN Next_(g, m) ELSE g[n]]
  <2>6. \A n \in 0 .. m : Next_(f, n) = Next_(g, n)
    <3> TAKE n \in 0 .. m
    <3>1. n # 0 => f[n - 1] = g[n - 1]
      BY <2>3
    <3> HIDE DEF f
    <3> QED BY <3>1 DEF NextLoaded
  <2>7. \A n \in 0 .. m - 1 : g[n] = Next_(g, n)
    <3> HIDE DEF Next_
    <3> QED BY <2>5
  <2>8. \A n \in 0 .. m : f[n] = Next_(f, n)
    <3> HIDE DEF Next_
    <3> QED BY <2>3, <2>6, <2>7
  <2>9. Solves(m, f)
    <3> HIDE DEF Next_
    <3> QED BY <2>8
  <2> QED BY <2>9
<1>2. PICK f : Solves(last, f)
  <2> HIDE DEF Next_
  <2> QED BY <1>1
<1> DEFINE h == CHOOSE f_1 : f_1 = [n \in 0 .. last |-> Next_(f_1, n)]
<1>3. LoadedBlocks(file) = h[last]
  BY DEF LoadedBlocks, NextLoaded
<1>4. h = [n \in 0 .. last |-> Next_(h, n)]
  <2> HIDE DEF Next_
  <2> QED BY <1>2
<1> HIDE DEF h
<1> QED BY <1>3, <1>4

\* The blocks of a file that are read; while all are accepted they are a chain.
ReadFrom(loaded, file, n) ==
    /\ IsNode(loaded.w) /\ loaded.w.orphans = << >> /\ loaded.w.orphanHashes = {}
    /\ loaded.w.privateTip = NoHash /\ loaded.w.pending = << >>
    /\ DOMAIN loaded.w.blocks = {file.chain[i] : i \in 1 .. n}
    /\ \A h \in DOMAIN loaded.w.blocks : loaded.w.blocks[h] = file.blocks[h]
    /\ loaded.ok \in BOOLEAN /\ (loaded.ok => Sound(loaded.w))

LEMMA NothingIsRead ==
    ASSUME NEW file
    PROVE  ReadFrom([ok |-> TRUE, w |-> EmptyNode], file, 0)
<1>1. /\ IsNode(EmptyNode) /\ DOMAIN EmptyNode.blocks = {}
      /\ EmptyNode.orphans = << >> /\ EmptyNode.orphanHashes = {}
      /\ EmptyNode.privateTip = NoHash /\ EmptyNode.pending = << >>
  BY DEF EmptyNode, IsNode, NowFields
<1> QED BY <1>1, EmptyIsSound DEF ReadFrom

LEMMA ReadOn ==
    ASSUME NEW file, IsFile(file), NEW n \in Nat, n + 1 \in 1 .. Len(file.chain),
           NEW loaded, ReadFrom(loaded, file, n)
    PROVE  ReadFrom(LoadNext(loaded, file.chain[n + 1], file.blocks[file.chain[n + 1]]),
                    file, n + 1)
<1> DEFINE hash    == file.chain[n + 1]
           block   == file.blocks[hash]
           applied == AppliedTo(loaded.w, block)
           status  == Status(loaded.w, hash, block, applied)
           v       == StoredIn(loaded.w, hash, block, applied)
           next    == LoadNext(loaded, hash, block)
<1>1. hash \in Hashes /\ hash \in ToSet(file.chain) /\ IsSeq(block.transactions)
  BY DEF IsFile, ToSet
<1>2. next.ok = (loaded.ok /\ status = "accepted") /\ next.w = v
  BY DEF LoadNext, LoadBlock
<1> HIDE DEF block, applied, status
<1>3. IsNode(loaded.w)
  BY DEF ReadFrom
<1>4. /\ Gains(v, loaded.w, hash, block, applied)
      /\ v.orphanHashes = loaded.w.orphanHashes /\ v.pending = loaded.w.pending
      /\ v.privateTip = loaded.w.privateTip
  BY <1>3, StoredGains
<1> HIDE DEF v, next
<1>5. DOMAIN v.blocks = {file.chain[i] : i \in 1 .. n + 1}
  <2>1. DOMAIN v.blocks = DOMAIN loaded.w.blocks \cup {hash}
    BY <1>4 DEF Gains, With
  <2>2. 1 .. n + 1 = (1 .. n) \cup {n + 1}
    OBVIOUS
  <2> QED BY <2>1, <2>2 DEF ReadFrom
<1> HIDE DEF hash
<1>6. \A h \in DOMAIN v.blocks : v.blocks[h] = file.blocks[h]
  BY <1>4 DEF Gains, With, ReadFrom, block
<1>7. next.ok => Sound(v)
  <2> SUFFICES ASSUME next.ok PROVE Sound(v)
    OBVIOUS
  <2>1. Sound(loaded.w) /\ status = "accepted"
    BY <1>2 DEF ReadFrom
  <2>2. IsSeq(v.pending)
    BY <1>4, EmptyIsSeq DEF ReadFrom
  <2> QED BY <1>1, <1>4, <2>1, <2>2, GainsIsSound DEF status, applied
<1>8. next.ok \in BOOLEAN
  BY <1>2
<1>9. ReadFrom(next, file, n + 1)
  <2>1. /\ IsNode(next.w) /\ next.w.orphans = << >> /\ next.w.orphanHashes = {}
        /\ next.w.privateTip = NoHash /\ next.w.pending = << >>
    BY <1>2, <1>4 DEF Gains, ReadFrom
  <2> QED BY <1>2, <1>5, <1>6, <1>7, <1>8, <2>1 DEF ReadFrom
<1> QED BY <1>9 DEF next, hash, block

LEMMA LoadedBlocksAreRead ==
    ASSUME NEW file, IsFile(file)
    PROVE  ReadFrom(LoadedBlocks(file), file, Len(file.chain))
<1> DEFINE last == Len(file.chain)
<1>1. last \in Nat
  BY DEF IsFile
<1>2. PICK f : /\ f = [n \in 0 .. last |-> NextLoaded(file, f, n)]
               /\ LoadedBlocks(file) = f[last]
  BY <1>1, LoadedBlocksSolves
<1>3. \A n \in 0 .. last : f[n] = NextLoaded(file, f, n)
  BY <1>2
<1> HIDE DEF last
<1> DEFINE Held == {n \in 0 .. last : ReadFrom(f[n], file, n)}
<1>4. 0 \in Held
  <2>1. f[0] = NextLoaded(file, f, 0)
    BY <1>1, <1>3
  <2>2. f[0] = [ok |-> TRUE, w |-> EmptyNode]
    BY <2>1 DEF NextLoaded
  <2>3. ReadFrom(f[0], file, 0)
    BY <2>2, NothingIsRead
  <2> QED BY <1>1, <2>3
<1>5. ASSUME NEW n \in 0 .. last, n # last, n \in Held
      PROVE  n + 1 \in Held
  <2>1. n + 1 \in 0 .. last /\ n + 1 \in 1 .. last /\ n + 1 # 0 /\ (n + 1) - 1 = n /\ n \in Nat
    BY <1>1, <1>5
  <2>2. f[n + 1] = LoadNext(f[n], file.chain[n + 1], file.blocks[file.chain[n + 1]])
    BY <1>3, <2>1 DEF NextLoaded
  <2> DEFINE loaded == f[n]
  <2>3. IsFile(file) /\ n \in Nat /\ n + 1 \in 1 .. Len(file.chain) /\ ReadFrom(loaded, file, n)
    BY <1>5, <2>1 DEF last
  <2> HIDE DEF loaded
  <2>4. ReadFrom(LoadNext(loaded, file.chain[n + 1], file.blocks[file.chain[n + 1]]),
                 file, n + 1)
    BY ONLY <2>3, ReadOn, Zenon
  <2> QED BY <2>1, <2>2, <2>4 DEF loaded
<1>6. last \in Held
  <2> HIDE DEF Held
  <2>1. 0 .. last \subseteq Held
    BY <1>1, <1>4, <1>5, HoldsUpTo
  <2> QED BY <1>1, <2>1
<1> QED BY <1>2, <1>6 DEF last

\* A restart: with the blocks and the pool of the file, or from the genesis block.
RestoredFrom(s, file) ==
    /\ Loaded(file).ok
    /\ DOMAIN s.blocks = ToSet(file.chain)
    /\ \A h \in DOMAIN s.blocks : s.blocks[h] = file.blocks[h]
    /\ s.mainTip = LoadedBlocks(file).w.mainTip
    /\ s.pending = file.pending

LEMMA StartedIsSound ==
    ASSUME NEW file, IsFile(file)
    PROVE  LET s == Started(file)
           IN  /\ Sound(s) /\ s.mainTip # NoHash /\ PoolOk(s)
               /\ WaitFor(s, {}, {}) /\ s.orphans = << >>
               /\ s = FreshNode \/ RestoredFrom(s, file)
<1> DEFINE read   == LoadedBlocks(file)
           loaded == Loaded(file)
           s      == Started(file)
<1>1. /\ loaded.ok = (read.ok /\ PoolOn(file.pending, StateIn(read.w, read.w.mainTip)).ok)
      /\ loaded.w = [read.w EXCEPT !.pending = file.pending]
  BY DEF Loaded, WithPool
<1>2. s = IF loaded.ok /\ loaded.w.blocks # << >> THEN loaded.w ELSE FreshNode
  BY DEF Started, StartedFrom
<1>3. ReadFrom(read, file, Len(file.chain))
  BY LoadedBlocksAreRead
<1>4. CASE s = FreshNode
  <2>1. GenesisHash # NoHash
    BY GenesisHashAssumption, NoHashAssumption
  <2>2. WaitFor(FreshNode, {}, {})
    BY FreshIsSound, NobodyWaits DEF Sound
  <2> QED BY <1>4, <2>1, <2>2, FreshIsSound
<1>5. CASE s # FreshNode
  <2>1. loaded.ok /\ loaded.w.blocks # << >> /\ s = loaded.w
    BY <1>2, <1>5
  <2> HIDE DEF s, loaded, read
  <2>2. /\ IsNode(s) /\ s.blocks = read.w.blocks /\ s.states = read.w.states
        /\ s.mainTip = read.w.mainTip /\ s.pending = file.pending
        /\ s.orphans = << >> /\ s.orphanHashes = {}
    BY <1>1, <1>3, <2>1 DEF ReadFrom, IsNode, NowFields
  <2>3. Sound(read.w) /\ IsSeq(file.pending)
    BY <1>1, <1>3, <2>1 DEF ReadFrom, IsFile
  <2>4. Sound(s)
    BY <2>2, <2>3, SameIsSound
  <2>5. PoolOk(s)
    BY <1>1, <2>1, <2>2 DEF PoolOk, StateIn
  <2>6. WaitFor(s, {}, {})
    BY <2>2, NobodyWaits
  <2>7. DOMAIN s.blocks = ToSet(file.chain)
        /\ \A h \in DOMAIN s.blocks : s.blocks[h] = file.blocks[h]
    BY <1>3, <2>2 DEF ReadFrom, ToSet, IsFile
  <2>8. s.mainTip # NoHash
    <3>1. CASE Len(file.chain) = 0
      <4>1. read = [ok |-> TRUE, w |-> EmptyNode]
        <5> DEFINE last == Len(file.chain)
        <5>0. Len(file.chain) \in Nat
          BY <3>1
        <5>1. PICK f : /\ f = [n \in 0 .. last |-> NextLoaded(file, f, n)]
                       /\ LoadedBlocks(file) = f[last]
          BY ONLY <5>0, LoadedBlocksSolves
        <5>2. last = 0
          BY <3>1
        <5> HIDE DEF last
        <5>3. f[0] = NextLoaded(file, f, 0)
          BY <5>1, <5>2
        <5> QED BY <5>1, <5>2, <5>3 DEF NextLoaded, read
      <4>2. s.blocks = << >>
        BY <4>1, <2>2 DEF EmptyNode
      <4> QED BY <2>1, <4>2
    <3>2. CASE Len(file.chain) # 0
      <4>1. file.chain[1] \in ToSet(file.chain)
        BY <3>2 DEF IsFile, ToSet
      <4>2. s.mainTip \in DOMAIN s.blocks
        BY <2>4, <2>7, <4>1 DEF Sound, TipOf
      <4> QED BY <2>4, <4>2, NoHashAssumption DEF Sound, TypesOf
    <3> QED BY <3>1, <3>2
  <2>9. RestoredFrom(s, file)
    BY <2>1, <2>2, <2>7 DEF RestoredFrom, loaded, read
  <2> QED BY <2>2, <2>4, <2>5, <2>6, <2>8, <2>9 DEF s
<1> QED BY <1>4, <1>5

----------------------------------------------------------------------------
(* The inductive invariant: the chain is sound, no orphan waits for a block *)
(* that is there, the tip of a search is still one of the preferred branch, *)
(* and the file can be read.                                               *)

TipIsKnown ==
    /\ miner.tip \in Stored
    /\ IF private
       THEN IsAncestor(Now, miner.tip, StateTip(Now))
       ELSE miner.tip = mainTip \/ Height(miner.tip) < Height(mainTip)

MinerOk ==
    /\ DOMAIN miner = {"at", "tip", "hash", "stop", "cancel"}
    /\ miner.at \in {"started", "searching"} => TipIsKnown
    /\ miner.at = "searching" =>
          candidate.previous_hash = miner.tip /\ IsSeq(candidate.transactions)
    /\ miner.at = "found" => miner.tip \in Stored /\ miner.hash \in Stored

NodeInv ==
    /\ Sound(Now) /\ mainTip # NoHash
    /\ WaitFor(Now, {}, {})
    /\ MinerOk
    /\ IsFile(saved)

LEMMA NowIs ==
    /\ Now.blocks = blocks /\ Now.states = states /\ Now.mainTip = mainTip
    /\ Now.pending = pending /\ Now.orphans = orphans /\ Now.orphanHashes = orphanHashes
    /\ Now.privateTip = privateTip /\ Now.cancel = miner.cancel
BY DEF Now

LEMMA StoredIsNow ==
    ASSUME NodeInv
    PROVE  /\ DOMAIN states = Stored /\ mainTip \in Stored /\ NoHash \notin Stored
           /\ StateTip(Now) \in Stored
           /\ \A h \in Stored : Height(h) \in Nat /\ Height(h) <= Height(mainTip)
<1>1. Sound(Now) /\ mainTip # NoHash
  BY DEF NodeInv
<1>2. /\ DOMAIN states = DOMAIN blocks /\ mainTip \in DOMAIN blocks
      /\ DOMAIN blocks \subseteq Hashes
      /\ \A h \in DOMAIN blocks : states[h].height \in Nat
                                  /\ states[h].height <= states[mainTip].height
  BY <1>1, NowIs DEF Sound, TypesOf, TipOf
<1>3. StateTip(Now) \in DOMAIN blocks
  BY <1>2, NowIs DEF StateTip
<1> QED BY <1>2, <1>3, NoHashAssumption DEF Stored, Height

\* What a handler begins with.
LEMMA TouchedIsReady ==
    ASSUME NodeInv
    PROVE  LET w == Touched(Now)
           IN  /\ Ready(w) /\ WaitFor(w, {}, {})
               /\ w.blocks = blocks /\ w.states = states /\ w.mainTip = mainTip
               /\ w.pending = pending /\ w.cancel = miner.cancel
               /\ w.orphans = orphans /\ w.orphanHashes = orphanHashes
               /\ w.privateTip = IF private THEN StateTip(Now) ELSE privateTip
<1> DEFINE w == Touched(Now)
<1>1. Sound(Now) /\ WaitFor(Now, {}, {}) /\ IsSeq(pending)
  BY NowIs DEF NodeInv, Sound, TypesOf
<1>2. SameTree(w, Now) /\ w.pending = pending /\ w.cancel = miner.cancel
  BY NowIsNode, NowIs, TouchedKeeps
<1>3. w.privateTip = IF private THEN StateTip(Now) ELSE privateTip
  BY NowIsNode, NowIs DEF Touched, IsNode, NowFields
<1> HIDE DEF w
<1>4. /\ IsNode(w) /\ w.blocks = blocks /\ w.states = states /\ w.mainTip = mainTip
      /\ w.orphans = orphans /\ w.orphanHashes = orphanHashes
  BY <1>2, NowIs DEF SameTree
<1>5. Sound(w)
  BY <1>1, <1>2, <1>4, NowIs, SameIsSound
<1>6. WaitFor(w, {}, {})
  BY <1>1, <1>4, NowIs, SameWait
<1>7. Ready(w)
  BY <1>3, <1>4, <1>5, StoredIsNow DEF Ready, Stored
<1> QED BY <1>2, <1>3, <1>4, <1>6, <1>7 DEF w

\* The node after a step.
LEMMA BecomesSound ==
    ASSUME NEW v, Sound(v), WaitFor(v, {}, {}), v.mainTip # NoHash, Become(v), sent \subseteq sent'
    PROVE  Sound(Now') /\ mainTip' # NoHash /\ WaitFor(Now, {}, {})'
<1>1. /\ IsNode(Now')
      /\ Now'.blocks = v.blocks /\ Now'.states = v.states /\ Now'.mainTip = v.mainTip
      /\ Now'.pending = v.pending /\ Now'.orphans = v.orphans
      /\ Now'.orphanHashes = v.orphanHashes
  BY DEF Become, Now, IsNode, NowFields
<1>2. Sound(Now')
  BY <1>1, SameIsSound DEF Sound, TypesOf
<1>3. WaitFor(Now, {}, {})'
  <2>1. WaitFor(Now', {}, {})
    BY <1>1, SameWait
  <2>2. IsNode(Now)'
    BY <1>1
  <2>3. MayBeParent \subseteq MayBeParent'
    BY DEF MayBeParent
  <2> HIDE DEF MayBeParent
  <2> QED BY <2>1, <2>2, <2>3 DEF WaitFor, ListedIn
<1> QED BY <1>2, <1>3 DEF Become

\* The same tree, whatever pool.
LEMMA TreeStays ==
    ASSUME NodeInv, blocks' = blocks, states' = states, mainTip' = mainTip, orphans' = orphans,
           orphanHashes' = orphanHashes, IsSeq(pending'), sent \subseteq sent'
    PROVE  Sound(Now') /\ mainTip' # NoHash /\ WaitFor(Now, {}, {})'
<1> DEFINE v == [Touched(Now) EXCEPT !.pending = pending', !.privateTip = privateTip']
<1>1. /\ IsNode(v) /\ v.blocks = blocks /\ v.states = states /\ v.mainTip = mainTip
      /\ v.pending = pending' /\ v.privateTip = privateTip'
      /\ v.orphans = orphans /\ v.orphanHashes = orphanHashes
  BY TouchedIsReady DEF Ready, Sound, IsNode, NowFields
<1> HIDE DEF v
<1>2. Sound(Now) /\ WaitFor(Now, {}, {}) /\ mainTip # NoHash
  BY DEF NodeInv
<1>3. Sound(v)
  BY <1>1, <1>2, NowIs, SameIsSound
<1>4. WaitFor(v, {}, {})
  BY <1>1, <1>2, NowIs, SameWait
<1>5. Become(v)
  BY <1>1 DEF Become
<1> QED BY <1>1, <1>2, <1>3, <1>4, <1>5, BecomesSound

----------------------------------------------------------------------------
(* Blocks and chunks that arrive.                                          *)

\* What such a step makes of the node: it is v.
Handled(v) ==
    /\ Grown(v, Touched(Now), FALSE) /\ WaitFor(v, {}, {})
    /\ Become(v) /\ miner' = [miner EXCEPT !.cancel = v.cancel]
    /\ UNCHANGED <<candidate, private, sent, unsaved, restarts>>
    /\ \/ saved' = FileOf(v) /\ (deferred' <=> deferred)
       \/ saved' = saved /\ deferred'
       \/ /\ saved' = saved /\ (deferred' <=> deferred)
          /\ blocks' = blocks /\ mainTip' = mainTip /\ pending' = pending

LEMMA BlockIsHandled ==
    ASSUME NodeInv, NEW hash \in DOMAIN PeerBlocks, HandleBlock(hash)
    PROVE  \E v : Handled(v)
<1> DEFINE w == Touched(Now)
           o == AcceptOrStore(w, hash, PeerBlocks[hash], FALSE)
<1>1. /\ Ready(w) /\ WaitFor(w, {}, {})
      /\ w.blocks = blocks /\ w.mainTip = mainTip /\ w.pending = pending
  BY TouchedIsReady
<1>2. PeerBlocks[hash].previous_hash \in MayBeParent \cup {NoHash}
  BY DEF HandleBlock, MayArrive, MayBeParent
<1>3. /\ SettleBlock(o)
      /\ UNCHANGED <<candidate, private, sent, unsaved, deferred, restarts>>
  BY DEF HandleBlock
<1> HIDE DEF w
<1>4. /\ Grown(o.w, w, FALSE) /\ WaitFor(o.w, {}, {})
      /\ o.accepted \in BOOLEAN
      /\ ~o.accepted => /\ o.w.blocks = w.blocks /\ o.w.mainTip = w.mainTip
                        /\ o.w.pending = w.pending
  BY <1>1, <1>2, AcceptOrStoreWaits
<1> HIDE DEF o
<1> DEFINE v == o.w
<1>5. /\ Become(v) /\ miner' = [miner EXCEPT !.cancel = v.cancel]
      /\ IF o.accepted THEN saved' = FileOf(v) ELSE saved' = saved
  BY <1>3 DEF SettleBlock, Settle, Save
<1>6. ~o.accepted => blocks' = blocks /\ mainTip' = mainTip /\ pending' = pending
  BY <1>1, <1>4, <1>5 DEF Become
<1> HIDE DEF v
<1>7. Grown(v, w, FALSE) /\ WaitFor(v, {}, {})
  BY <1>4 DEF v
<1>8. Handled(v)
  BY <1>3, <1>5, <1>6, <1>7 DEF Handled, w
<1> QED BY <1>8

LEMMA ChainIsHandled ==
    ASSUME NodeInv, NEW chunk \in Chunks, NEW activeFastSync \in BOOLEAN,
           HandleChain(chunk, activeFastSync)
    PROVE  \E v : Handled(v)
<1> DEFINE w == Touched(Now)
           r == Imported(w, chunk)
           v == IF r.accepted THEN ReconcileSynced(Now, r.w) ELSE r.w
<1>1. /\ Ready(w) /\ WaitFor(w, {}, {})
      /\ w.blocks = blocks /\ w.mainTip = mainTip /\ w.pending = pending
  BY TouchedIsReady
<1>2. chunk \in Seq(DOMAIN PeerBlocks)
  BY ChunksAssumption
<1>3. \A i \in DOMAIN chunk : PeerBlocks[chunk[i]].previous_hash \in MayBeParent \cup {NoHash}
  BY DEF HandleChain, MayArrive, MayBeParent
<1>4. /\ SettleChain(r, activeFastSync)
      /\ UNCHANGED <<candidate, private, sent, unsaved, restarts>>
  BY DEF HandleChain
<1>5. StateTip(Now) \in w.blocks \/ StateTip(Now) \in DOMAIN w.blocks
  BY <1>1, StoredIsNow DEF Stored
<1> HIDE DEF w
<1>6. ImportedFrom(r, w)
  BY <1>1, <1>2, <1>3, ImportedWaits
<1> HIDE DEF r
<1>7. /\ Settle(v, r.accepted /\ ~activeFastSync)
      /\ deferred' = (deferred \/ (r.accepted /\ activeFastSync))
  BY <1>4 DEF SettleChain
<1>8. CASE ~r.accepted
  <2>1. v = r.w
    BY <1>8
  <2>2. /\ Grown(r.w, w, TRUE) /\ WaitFor(r.w, {}, {})
        /\ r.w.blocks = w.blocks /\ r.w.mainTip = w.mainTip /\ r.w.pending = w.pending
    BY <1>6, <1>8 DEF ImportedFrom
  <2> HIDE DEF v
  <2>3. Grown(v, w, FALSE)
    <3>1. StateIn(v, v.mainTip) = StateIn(w, w.mainTip)
      <4>1. w.mainTip \in DOMAIN w.blocks
        BY <1>1, StoredIsNow DEF Stored
      <4> QED BY <2>1, <2>2, <4>1 DEF Grown, Extends, StateIn
    <3>2. PoolOk(w) => PoolOk(v)
      BY <2>1, <2>2, <3>1 DEF PoolOk
    <3>3. PoolStays(v, w)
      BY <2>1, <2>2 DEF PoolStays
    <3> QED BY <2>1, <2>2, <3>2, <3>3 DEF Grown
  <2>4. WaitFor(v, {}, {})
    BY <2>1, <2>2
  <2>5. /\ Become(v) /\ miner' = [miner EXCEPT !.cancel = v.cancel]
        /\ saved' = saved /\ (deferred' <=> deferred)
    BY <1>7, <1>8 DEF Settle
  <2>6. blocks' = blocks /\ mainTip' = mainTip /\ pending' = pending
    BY <1>1, <2>1, <2>2, <2>5 DEF Become
  <2>7. Handled(v)
    BY <1>4, <2>3, <2>4, <2>5, <2>6 DEF Handled, w
  <2> QED BY <2>7
<1>9. CASE r.accepted
  <2>1. v = Reconcile(r.w, StateTip(Now), StateTip(r.w))
    BY <1>9 DEF ReconcileSynced
  <2>2. Grown(r.w, w, TRUE) /\ WaitFor(r.w, {}, {}) /\ Sound(r.w) /\ IsNode(r.w)
    BY <1>6 DEF ImportedFrom, Grown, Sound
  <2>3. /\ StateTip(Now) \in DOMAIN r.w.blocks \cup {NoHash}
        /\ StateTip(r.w) \in DOMAIN r.w.blocks \cup {NoHash}
    BY <1>1, <2>2, StoredIsNow, StateTipIsStored DEF Grown, Extends, Stored
  <2> HIDE DEF v
  <2>4. /\ SameTree(v, r.w) /\ v.privateTip = r.w.privateTip /\ v.cancel = r.w.cancel
        /\ Sound(v) /\ PoolOk(v)
    BY <2>1, <2>2, <2>3, ReconcileIsSound
  <2>5. Grown(v, w, FALSE)
    <3>1. Extends(v, w) /\ TipRisesTo(v, w)
      BY <2>2, <2>4 DEF Grown, Extends, TipRisesTo, SameTree
    <3>2. ~private => TellsPublic(v, w)
      BY <2>2, <2>4 DEF Grown, TellsPublic, SameTree
    <3>3. private => TellsPrivate(v, w)
      BY <2>2, <2>4 DEF Grown, TellsPrivate, SameTree, IsAncestor
    <3>4. w.cancel => v.cancel
      BY <2>2, <2>4 DEF Grown
    <3>5. PoolOk(w) => PoolStays(v, w)
      <4> SUFFICES ASSUME PoolOk(w), ~private, v.mainTip = w.mainTip
                   PROVE  ToSet(w.pending) \subseteq ToSet(v.pending)
        BY DEF PoolStays
      <4>1. r.w.mainTip = w.mainTip /\ r.w.pending = w.pending
        BY <2>2, <2>4 DEF SameTree, Grown
      <4>2. PoolOk(r.w)
        BY <1>1, <2>2, <4>1, SameTipSamePool DEF Grown, Ready
      <4>3. v = Reconcile(r.w, r.w.mainTip, r.w.mainTip)
        BY <1>1, <2>1, <4>1, NowIs DEF StateTip
      <4> QED BY <2>2, <4>1, <4>2, <4>3, ReconcileStays
    <3>6. Comes(v, w)
      <4>1. /\ TxsOf(v) \subseteq TxsOf(r.w)
            /\ \A tx \in ToSet(v.pending) : tx \in ToSet(r.w.pending) \/ ~IsReward(tx)
        BY <2>1, <2>2, <2>3, ReconcileComes
      <4> QED BY <2>2, <4>1 DEF Grown, Comes
    <3> QED BY <2>4, <3>1, <3>2, <3>3, <3>4, <3>5, <3>6 DEF Grown
  <2>6. WaitFor(v, {}, {})
    BY <2>2, <2>4, SameWait DEF SameTree
  <2>7. /\ Become(v) /\ miner' = [miner EXCEPT !.cancel = v.cancel]
        /\ \/ saved' = FileOf(v) /\ (deferred' <=> deferred)
           \/ saved' = saved /\ deferred'
    BY <1>7, <1>9 DEF Settle, Save
  <2>8. Handled(v)
    BY <1>4, <2>5, <2>6, <2>7 DEF Handled, w
  <2> QED BY <2>8
<1> QED BY <1>8, <1>9

\* The tip of a search is still one that the preferred branch goes through.
LEMMA HandledKnowsTip ==
    ASSUME NodeInv, NEW v, Handled(v), TipIsKnown
    PROVE  TipIsKnown'
<1> DEFINE w == Touched(Now)
<1> PICK tip : tip = miner.tip
  OBVIOUS
<1>1. /\ Ready(w) /\ w.blocks = blocks /\ w.states = states /\ w.mainTip = mainTip
      /\ w.privateTip = IF private THEN StateTip(Now) ELSE privateTip
  BY TouchedIsReady
<1>2. Grown(v, w, FALSE) /\ Sound(v) /\ Extends(v, w)
  BY DEF Handled, Grown
<1>3. Sound(w) /\ Sound(Now)
  BY <1>1 DEF Ready, NodeInv
<1>4. /\ blocks' = v.blocks /\ states' = v.states /\ mainTip' = v.mainTip
      /\ privateTip' = v.privateTip /\ private' = private
  BY DEF Handled, Become
<1>5. miner'.tip = tip
  BY DEF Handled
<1>6. tip \in DOMAIN w.blocks
  BY <1>1 DEF TipIsKnown, Stored
<1> HIDE DEF w
<1>7. tip \in Stored'
  BY <1>2, <1>4, <1>6 DEF Extends, Stored
<1>8. CASE private
  <2>1. w.privateTip = StateTip(Now) /\ w.privateTip \in DOMAIN w.blocks
    BY <1>1, <1>8, StoredIsNow DEF Stored
  <2>2. v.privateTip \in DOMAIN v.blocks /\ IsAncestor(v, w.privateTip, v.privateTip)
    BY <1>2, <1>8 DEF Grown, TellsPrivate
  <2>3. IsAncestor(w, tip, w.privateTip)
    BY <1>1, <1>8, <2>1, NowIs DEF TipIsKnown, IsAncestor
  <2>4. IsAncestor(v, tip, w.privateTip)
    BY <1>2, <1>3, <2>1, <2>3, AncestorsStay
  <2>5. IsAncestor(v, tip, v.privateTip)
    BY <1>2, <2>2, <2>4, AncestorIsTransitive
  <2>6. DOMAIN v.states = DOMAIN v.blocks
    BY <1>2 DEF Sound, TypesOf
  <2>7. StateTip(Now)' = v.privateTip
    BY <1>4, <1>8, <2>2, <2>6 DEF StateTip, Now
  <2>8. IsAncestor(Now', tip, v.privateTip)
    BY <1>4, <2>5 DEF IsAncestor, Now
  <2> QED BY <1>4, <1>5, <1>7, <1>8, <2>7, <2>8 DEF TipIsKnown
<1>9. CASE ~private
  <2>1. tip = mainTip \/ Height(tip) < Height(mainTip)
    BY <1>9 DEF TipIsKnown
  <2>2. /\ mainTip \in DOMAIN w.blocks /\ mainTip # NoHash
        /\ v.mainTip \in DOMAIN v.blocks
    BY <1>1, <1>2, StoredIsNow DEF Sound, TipOf, Stored, NodeInv, Extends
  <2>3. /\ Height(tip)' = Height(tip) /\ Height(tip) \in Nat /\ Height(mainTip) \in Nat
        /\ Height(mainTip)' = v.states[v.mainTip].height
        /\ v.states[v.mainTip].height \in Nat
        /\ v.states[mainTip].height = Height(mainTip)
    <3>1. v.states[tip] = w.states[tip]
      BY <1>2, <1>6 DEF Extends
    <3>2. Height(tip)' = Height(tip) /\ Height(mainTip)' = v.states[v.mainTip].height
      BY <1>1, <1>4, <3>1 DEF Height
    <3>3. Height(tip) \in Nat /\ Height(mainTip) \in Nat
      BY <1>1, <1>6, StoredIsNow DEF Stored
    <3>4. v.states[v.mainTip].height \in Nat
      BY <1>2, <2>2 DEF Sound, TypesOf
    <3>5. v.states[mainTip].height = Height(mainTip)
      BY <1>1, <1>2, <2>2 DEF Extends, Height
    <3> QED BY <3>2, <3>3, <3>4, <3>5
  <2>4. v.mainTip = mainTip \/ v.states[v.mainTip].height > Height(mainTip)
    BY <1>1, <1>2, <2>2 DEF Grown, TipRisesTo, Height
  <2>5. tip = v.mainTip \/ Height(tip)' < v.states[v.mainTip].height
    <3> DEFINE high == v.states[v.mainTip].height
    <3>1. high = Height(mainTip) \/ high > Height(mainTip)
      BY <2>3, <2>4
    <3>2. tip = mainTip => Height(tip) = Height(mainTip)
      OBVIOUS
    <3> HIDE DEF high
    <3> QED BY <2>1, <2>3, <2>4, <3>1, <3>2 DEF high
  <2>6. Height(miner.tip)' = Height(tip)
    BY <1>5, <2>3 DEF Height
  <2> QED BY <1>4, <1>5, <1>7, <1>9, <2>3, <2>5, <2>6 DEF TipIsKnown
<1> QED BY <1>8, <1>9

LEMMA HandledInv ==
    ASSUME NodeInv, NEW v, Handled(v)
    PROVE  NodeInv'
<1> DEFINE w == Touched(Now)
<1>1. /\ w.blocks = blocks /\ w.states = states /\ mainTip \in DOMAIN w.blocks
  BY TouchedIsReady, StoredIsNow DEF Stored
<1>2. Sound(v) /\ Extends(v, w) /\ WaitFor(v, {}, {}) /\ Become(v) /\ sent' = sent
  BY DEF Handled, Grown
<1> HIDE DEF w
<1>3. v.mainTip # NoHash /\ DOMAIN blocks \subseteq DOMAIN v.blocks
  BY <1>1, <1>2, NoHashAssumption DEF Sound, TipOf, TypesOf, Extends
<1>4. Sound(Now') /\ mainTip' # NoHash /\ WaitFor(Now, {}, {})'
  BY <1>2, <1>3, BecomesSound
<1>5. MinerOk'
  <2>1. /\ DOMAIN miner' = DOMAIN miner /\ miner'.at = miner.at /\ miner'.tip = miner.tip
        /\ miner'.hash = miner.hash /\ candidate' = candidate
        /\ DOMAIN blocks \subseteq DOMAIN blocks'
    BY <1>2, <1>3 DEF Handled, NodeInv, MinerOk, Become
  <2>2. TipIsKnown => TipIsKnown'
    BY HandledKnowsTip
  <2> QED BY <2>1, <2>2 DEF NodeInv, MinerOk, Stored
<1>6. IsFile(saved')
  BY <1>2, <1>3, FileOfIsFile DEF Handled, NodeInv
<1> QED BY <1>4, <1>5, <1>6 DEF NodeInv

----------------------------------------------------------------------------
(* The steps that leave the tree as it is.                                 *)

Quiet ==
    /\ blocks' = blocks /\ states' = states /\ mainTip' = mainTip
    /\ orphans' = orphans /\ orphanHashes' = orphanHashes /\ private' = private
    /\ IsSeq(pending') /\ sent \subseteq sent'

\* The private tip at most by what reading it does to it.
TipStays == privateTip' = privateTip \/ (private /\ privateTip' = StateTip(Now))

LEMMA QuietStateTip ==
    ASSUME NodeInv, Quiet, TipStays
    PROVE  StateTip(Now)' = StateTip(Now)
<1>1. DOMAIN states = Stored /\ StateTip(Now) \in Stored
  BY StoredIsNow
<1> QED BY <1>1 DEF Quiet, TipStays, StateTip, Now, Stored

LEMMA QuietKnowsTip ==
    ASSUME NodeInv, Quiet, TipStays, TipIsKnown, miner'.tip = miner.tip
    PROVE  TipIsKnown'
<1>1. StateTip(Now)' = StateTip(Now)
  BY QuietStateTip
<1>2. Now'.blocks = Now.blocks
  BY DEF Quiet, Now
<1> QED BY <1>1, <1>2 DEF Quiet, TipIsKnown, IsAncestor, Stored, Height

LEMMA QuietInv ==
    ASSUME NodeInv, Quiet, MinerOk', IsFile(saved')
    PROVE  NodeInv'
<1>1. Sound(Now') /\ mainTip' # NoHash /\ WaitFor(Now, {}, {})'
  BY TreeStays DEF Quiet
<1> QED BY <1>1 DEF NodeInv

\* Automine is off, or at the head of its loop.
LEMMA IdleIsOk ==
    ASSUME DOMAIN miner' = {"at", "tip", "hash", "stop", "cancel"},
           miner'.at \notin {"started", "searching", "found"}
    PROVE  MinerOk'
BY DEF MinerOk

LEMMA TouchedIsQuiet ==
    ASSUME NodeInv, Become(Touched(Now)), private' = private, sent' = sent
    PROVE  Quiet /\ TipStays /\ pending' = pending
<1>1. LET w == Touched(Now)
      IN  /\ w.blocks = blocks /\ w.states = states /\ w.mainTip = mainTip
          /\ w.pending = pending
          /\ w.orphans = orphans /\ w.orphanHashes = orphanHashes
          /\ w.privateTip = IF private THEN StateTip(Now) ELSE privateTip
  BY TouchedIsReady
<1>2. IsSeq(pending)
  BY NowIs DEF NodeInv, Sound, TypesOf
<1> QED BY <1>1, <1>2 DEF Become, Quiet, TipStays

LEMMA SameIsQuiet ==
    ASSUME NodeInv, UNCHANGED chainVars,
           UNCHANGED <<private, privateTip, orphans, orphanHashes, sent>>
    PROVE  Quiet /\ TipStays
<1>1. IsSeq(pending)
  BY NowIs DEF NodeInv, Sound, TypesOf
<1> QED BY <1>1 DEF chainVars, Quiet, TipStays

LEMMA TransactionInv ==
    ASSUME NodeInv, NEW tx, HandleTransaction(tx)
    PROVE  NodeInv' /\ Quiet /\ TipStays
<1> DEFINE w == Touched(Now)
           v == [w EXCEPT !.pending = Append(w.pending, tx)]
<1>1. /\ Ready(w) /\ IsNode(w) /\ IsSeq(pending)
      /\ w.blocks = blocks /\ w.states = states /\ w.mainTip = mainTip
      /\ w.pending = pending /\ w.cancel = miner.cancel
      /\ w.orphans = orphans /\ w.orphanHashes = orphanHashes
      /\ w.privateTip = IF private THEN StateTip(Now) ELSE privateTip
  BY TouchedIsReady DEF Ready, Sound, TypesOf
<1>2. /\ Settle(v, TRUE) /\ UNCHANGED <<candidate, private, sent>>
  BY DEF HandleTransaction
<1> HIDE DEF w
<1>3. IsSeq(Append(w.pending, tx))
  BY <1>1, AppendIsSeq
<1> DEFINE more == Append(w.pending, tx)
<1>4. /\ IsNode(v) /\ v.blocks = blocks /\ v.states = states /\ v.mainTip = mainTip
      /\ v.pending = more /\ v.cancel = miner.cancel
      /\ v.orphans = orphans /\ v.orphanHashes = orphanHashes
      /\ v.privateTip = w.privateTip
  <2> HIDE DEF more
  <2>1. v = [w EXCEPT !.pending = more]
    BY DEF more
  <2> QED BY <1>1, <2>1 DEF IsNode, NowFields
<1> HIDE DEF v, more
<1>5. /\ blocks' = blocks /\ states' = states /\ mainTip' = mainTip /\ pending' = more
      /\ orphans' = orphans /\ orphanHashes' = orphanHashes /\ privateTip' = w.privateTip
      /\ miner' = [miner EXCEPT !.cancel = v.cancel] /\ saved' = FileOf(v)
  BY <1>2, <1>4 DEF Settle, Become, Save
<1>6. Quiet /\ TipStays
  BY <1>1, <1>2, <1>3, <1>5 DEF Quiet, TipStays, more
<1>7. MinerOk'
  <2>1. /\ DOMAIN miner' = DOMAIN miner /\ miner'.at = miner.at /\ miner'.tip = miner.tip
        /\ miner'.hash = miner.hash /\ candidate' = candidate /\ Stored' = Stored
    BY <1>2, <1>5 DEF NodeInv, MinerOk, Stored
  <2>2. TipIsKnown => TipIsKnown'
    BY <1>6, <2>1, QuietKnowsTip
  <2> QED BY <2>1, <2>2 DEF NodeInv, MinerOk
<1>8. Sound(v) /\ v.mainTip # NoHash
  <2>1. Sound(Now) /\ IsSeq(v.pending) /\ mainTip # NoHash
    BY <1>3, <1>4 DEF NodeInv, more
  <2> QED BY <1>4, <2>1, NowIs, SameIsSound
<1>9. IsFile(saved')
  BY <1>5, <1>8, FileOfIsFile
<1> QED BY <1>6, <1>7, <1>9, QuietInv

LEMMA SyncCompleteInv ==
    ASSUME NodeInv, HandleSyncComplete
    PROVE  NodeInv' /\ Quiet /\ TipStays
<1>1. /\ UNCHANGED chainVars /\ UNCHANGED <<private, privateTip, orphans, orphanHashes, sent>>
      /\ candidate' = candidate /\ miner' = miner /\ saved' = FileOf(Now)
  BY DEF HandleSyncComplete, vars, chainVars, Save
<1>2. Quiet /\ TipStays
  BY <1>1, SameIsQuiet
<1>3. TipIsKnown => TipIsKnown'
  BY <1>1, <1>2, QuietKnowsTip
<1>4. MinerOk'
  BY <1>1, <1>3 DEF NodeInv, MinerOk, Stored, chainVars
<1>5. IsFile(saved')
  BY <1>1, FileOfIsFile, NowIs DEF NodeInv
<1> QED BY <1>2, <1>4, <1>5, QuietInv

\* start_automine, stop_automine, the end of a search or of automine.
LEMMA IdleInv ==
    ASSUME NodeInv, StartAutomine \/ SearchCancelled \/ EndAutomine
    PROVE  NodeInv' /\ Quiet /\ TipStays
<1>1. /\ DOMAIN miner' = {"at", "tip", "hash", "stop", "cancel"}
      /\ miner'.at \in {"off", "loop"}
  BY DEF StartAutomine, SearchCancelled, EndAutomine, OffMiner
<1>2. saved' = saved
  BY DEF StartAutomine, SearchCancelled, EndAutomine
<1>3. Quiet /\ TipStays
  <2>1. CASE StartAutomine
    BY <2>1, TouchedIsQuiet DEF StartAutomine
  <2>2. CASE SearchCancelled \/ EndAutomine
    <3>1. UNCHANGED chainVars /\ UNCHANGED <<private, privateTip, orphans, orphanHashes, sent>>
      BY <2>2 DEF SearchCancelled, EndAutomine, vars, chainVars
    <3> QED BY <3>1, SameIsQuiet
  <2> QED BY <2>1, <2>2
<1>4. MinerOk'
  BY <1>1, IdleIsOk
<1>5. IsFile(saved')
  BY <1>2 DEF NodeInv
<1> QED BY <1>3, <1>4, <1>5, QuietInv

LEMMA StopInv ==
    ASSUME NodeInv, StopAutomine
    PROVE  NodeInv' /\ Quiet /\ TipStays
<1>1. /\ UNCHANGED chainVars /\ UNCHANGED <<private, privateTip, orphans, orphanHashes, sent>>
      /\ candidate' = candidate /\ saved' = saved
  BY DEF StopAutomine, vars, chainVars
<1>2. /\ DOMAIN miner' = DOMAIN miner /\ miner'.at = miner.at /\ miner'.tip = miner.tip
      /\ miner'.hash = miner.hash
  BY DEF StopAutomine, NodeInv, MinerOk
<1>3. Quiet /\ TipStays
  BY <1>1, SameIsQuiet
<1>4. TipIsKnown => TipIsKnown'
  BY <1>2, <1>3, QuietKnowsTip
<1>5. MinerOk'
  BY <1>1, <1>2, <1>4 DEF NodeInv, MinerOk, Stored, chainVars
<1> QED BY <1>1, <1>3, <1>5, QuietInv DEF NodeInv

LEMMA BeginSearchInv ==
    ASSUME NodeInv, BeginSearch
    PROVE  NodeInv' /\ Quiet /\ TipStays
<1>1. Quiet /\ TipStays
  BY TouchedIsQuiet DEF BeginSearch
<1>2. /\ DOMAIN miner' = {"at", "tip", "hash", "stop", "cancel"}
      /\ miner'.at = "started" /\ miner'.tip = StateTip(Now)
  BY DEF BeginSearch, NodeInv, MinerOk
<1>3. StateTip(Now) \in DOMAIN Now.blocks
  BY NowIs, StoredIsNow DEF Stored
<1>4. IsAncestor(Now, StateTip(Now), StateTip(Now))
  BY <1>3, OwnAncestor DEF NodeInv
<1>5. /\ StateTip(Now)' = StateTip(Now) /\ Now'.blocks = Now.blocks /\ Stored' = Stored
      /\ private' = private /\ mainTip' = mainTip
  BY <1>1, QuietStateTip DEF Quiet, Now, Stored
<1>6. ~private => StateTip(Now) = mainTip
  BY DEF StateTip, Now
<1>7. TipIsKnown'
  <2>1. miner'.tip \in Stored'
    BY <1>2, <1>3, <1>5, NowIs DEF Stored
  <2>2. private => IsAncestor(Now', miner'.tip, StateTip(Now)')
    BY <1>2, <1>4, <1>5 DEF IsAncestor
  <2>3. ~private => miner'.tip = mainTip'
    BY <1>2, <1>5, <1>6
  <2> QED BY <1>5, <2>1, <2>2, <2>3 DEF TipIsKnown
<1>8. MinerOk'
  BY <1>2, <1>7 DEF MinerOk
<1>9. IsFile(saved')
  BY DEF BeginSearch, NodeInv
<1> QED BY <1>1, <1>8, <1>9, QuietInv

\* The candidate builds on the tip that was read.
LEMMA SelectInv ==
    ASSUME NodeInv, Select
    PROVE  NodeInv' /\ Quiet /\ TipStays
<1>1. /\ UNCHANGED chainVars /\ UNCHANGED <<private, privateTip, orphans, orphanHashes, sent>>
      /\ saved' = saved
  BY DEF Select
<1>2. PICK cancel : miner' = [miner EXCEPT !.at = "searching", !.cancel = cancel]
  BY DEF Select
<1>3. /\ DOMAIN miner' = {"at", "tip", "hash", "stop", "cancel"}
      /\ miner'.at = "searching" /\ miner'.tip = miner.tip
  BY <1>2 DEF NodeInv, MinerOk
<1>4. Quiet /\ TipStays
  BY <1>1, SameIsQuiet
<1>5. TipIsKnown'
  BY <1>3, <1>4, QuietKnowsTip DEF NodeInv, MinerOk, Select
<1>6. candidate'.previous_hash = miner.tip /\ IsSeq(candidate'.transactions)
  <2> DEFINE state == StateAt(miner.tip)
             selected == SelectedTransactions(pending, state)
             reward == RewardTransaction(Wallet, CollectedFees(selected, state))
  <2>1. candidate' = BlockOf(Wallet, miner.tip, state, selected)
    BY DEF Select, MinedBlock
  <2>2. candidate'.previous_hash = miner.tip /\ candidate'.transactions = <<reward>> \o selected
    BY <2>1 DEF BlockOf
  <2>3. IsSeq(pending)
    BY NowIs DEF NodeInv, Sound, TypesOf
  <2>4. IsSeq(selected)
    BY <2>3, SelectedIsSeq
  <2>5. <<reward>> \in Seq({reward})
    OBVIOUS
  <2>6. IsSeq(<<reward>>)
    BY <2>5 DEF IsSeq
  <2> HIDE DEF selected, reward
  <2>7. IsSeq(<<reward>> \o selected)
    BY <2>4, <2>6, JoinIsSeq
  <2> QED BY <2>2, <2>7
<1>7. MinerOk'
  BY <1>3, <1>5, <1>6 DEF MinerOk
<1> QED BY <1>1, <1>4, <1>7, QuietInv DEF NodeInv

\* The block that is found, if it is accepted: the node is v.
Found(v, hash) ==
    /\ Status(Now, hash, candidate, AppliedTo(Now, candidate)) = "accepted"
    /\ v = ReconciledIf(~private, Now, StoredIn(Now, hash, candidate, AppliedTo(Now, candidate)))
    /\ Become(v) /\ miner' = [miner EXCEPT !.at = "found", !.hash = hash]

Refused ==
    /\ miner' = OffMiner
    /\ UNCHANGED <<chainVars, orphans, orphanHashes, privateTip>>

LEMMA FindBlockCases ==
    ASSUME NEW hash, FindBlock(hash)
    PROVE  (\E v : Found(v, hash)) \/ Refused
<1> DEFINE applied == AppliedTo(Now, candidate)
           status  == Status(Now, hash, candidate, applied)
           v == ReconciledIf(~private, Now, StoredIn(Now, hash, candidate, applied))
<1>1. AddFound(status, v, hash)
  BY DEF FindBlock, FindBlockWith
<1>2. CASE status = "accepted"
  <2>1. Found(v, hash)
    <3> HIDE DEF v, status, applied
    <3>1. Become(v) /\ miner' = [miner EXCEPT !.at = "found", !.hash = hash]
      BY <1>1, <1>2 DEF AddFound
    <3> QED BY <1>2, <3>1 DEF Found, v, status, applied
  <2> QED BY <2>1
<1>3. CASE status # "accepted"
  <2> HIDE DEF v, status
  <2> QED BY <1>1, <1>3 DEF AddFound, Refused
<1> QED BY <1>2, <1>3

LEMMA FoundIsSound ==
    ASSUME NodeInv, NEW hash, FindBlock(hash), NEW v, Found(v, hash)
    PROVE  /\ Sound(v) /\ Extends(v, Now) /\ WaitFor(v, {}, {})
           /\ DOMAIN v.blocks = Stored \cup {hash} /\ v.blocks[hash] = candidate
           /\ hash \in Hashes \ Stored
           /\ v.mainTip \in {mainTip, hash}
           /\ v.mainTip = hash => BecomesTipOf(Now, candidate)
           /\ v.privateTip = privateTip
           /\ v.pending = IF private THEN pending
                          ELSE Reconciled(v.blocks, StateIn(v, v.mainTip), mainTip, v.mainTip,
                                          pending)
           /\ ~private => PoolOk(v)
<1> DEFINE applied == AppliedTo(Now, candidate)
           s == StoredIn(Now, hash, candidate, applied)
           r == Reconcile(s, StateTip(Now), StateTip(s))
<1>1. /\ Sound(Now) /\ IsNode(Now) /\ WaitFor(Now, {}, {}) /\ mainTip # NoHash
      /\ IsSeq(candidate.transactions)
  BY DEF NodeInv, MinerOk, FindBlock, Sound
<1>2. hash \in Hashes \ (DOMAIN PeerBlocks \cup {GenesisHash} \cup Stored \cup sent)
  BY DEF FindBlock, IsNewHash
<1>3. Status(Now, hash, candidate, applied) = "accepted" /\ v = ReconciledIf(~private, Now, s)
  BY DEF Found
<1>4. /\ Gains(s, Now, hash, candidate, applied)
      /\ s.orphanHashes = orphanHashes /\ s.pending = pending /\ s.privateTip = privateTip
  BY <1>1, NowIs, StoredGains
<1>5. IsSeq(pending)
  BY <1>1, NowIs DEF Sound, TypesOf
<1>6. /\ Sound(s) /\ hash \notin DOMAIN Now.blocks
      /\ DOMAIN s.blocks = DOMAIN Now.blocks \cup {hash} /\ s.blocks[hash] = candidate
      /\ \A h \in DOMAIN Now.blocks :
            s.blocks[h] = Now.blocks[h] /\ s.states[h] = Now.states[h]
  BY <1>1, <1>2, <1>3, <1>4, <1>5, GainsIsSound
<1>7. s.mainTip = IF BecomesTipOf(Now, candidate) THEN hash ELSE mainTip
  BY <1>4, NowIs DEF Gains
<1> HIDE DEF applied, s
<1>8. Extends(s, Now)
  BY <1>6 DEF Extends
<1>9. WaitFor(s, {}, {})
  <2>1. s.orphans = Now.orphans /\ s.orphanHashes = Now.orphanHashes /\ IsNode(s)
    BY <1>4, NowIs DEF Gains
  <2>2. hash \notin Now.orphanHashes /\ hash \notin DOMAIN Now.orphans
    BY <1>1, <1>2 DEF WaitFor, MayBeParent
  <2> QED BY <1>1, <1>6, <2>1, <2>2 DEF WaitFor, ListedIn
<1>10. CASE private
  <2>1. v = s
    BY <1>3, <1>10 DEF ReconciledIf
  <2>2. /\ DOMAIN v.blocks = Stored \cup {hash} /\ v.blocks[hash] = candidate
        /\ v.mainTip \in {mainTip, hash}
        /\ v.mainTip = hash => BecomesTipOf(Now, candidate)
        /\ v.privateTip = privateTip /\ v.pending = pending
    BY <1>2, <1>4, <1>6, <1>7, <2>1, NowIs, StoredIsNow DEF Stored
  <2> QED BY <1>2, <1>6, <1>8, <1>9, <1>10, <2>1, <2>2
<1>11. CASE ~private
  <2>1. v = r
    BY <1>3, <1>11 DEF ReconciledIf
  <2>2. StateTip(Now) = mainTip /\ StateTip(s) = s.mainTip
    BY <1>11, NowIs DEF StateTip
  <2>3. /\ mainTip \in DOMAIN s.blocks \cup {NoHash}
        /\ s.mainTip \in DOMAIN s.blocks \cup {NoHash}
    BY <1>6, NowIs, StoredIsNow DEF Sound, TipOf, Stored
  <2>4. v = Reconcile(s, mainTip, s.mainTip)
    BY <2>1, <2>2
  <2> HIDE DEF r
  <2>5. SameTree(v, s) /\ v.privateTip = s.privateTip /\ Sound(v) /\ PoolOk(v)
    BY <1>6, <2>3, <2>4, ReconcileIsSound
  <2>6. v.pending = Reconciled(v.blocks, StateIn(v, v.mainTip), mainTip, v.mainTip, pending)
    <3>1. v.pending = Reconciled(s.blocks, StateIn(s, s.mainTip), mainTip, s.mainTip, s.pending)
      BY <2>4, <1>6 DEF Reconcile, Sound, IsNode, NowFields
    <3>2. StateIn(v, v.mainTip) = StateIn(s, s.mainTip)
      BY <2>5 DEF SameTree, StateIn
    <3> QED BY <1>4, <2>5, <3>1, <3>2 DEF SameTree
  <2>7. Extends(v, Now)
    BY <1>8, <2>5 DEF Extends, SameTree
  <2>8. WaitFor(v, {}, {})
    BY <1>9, <2>5, SameWait DEF SameTree
  <2>9. /\ DOMAIN v.blocks = Stored \cup {hash} /\ v.blocks[hash] = candidate
        /\ v.mainTip \in {mainTip, hash}
        /\ v.mainTip = hash => BecomesTipOf(Now, candidate)
        /\ v.privateTip = privateTip
    BY <1>2, <1>4, <1>6, <1>7, <2>5, NowIs, StoredIsNow DEF SameTree, Stored
  <2> QED BY <1>2, <1>11, <2>5, <2>6, <2>7, <2>8, <2>9
<1> QED BY <1>10, <1>11

LEMMA FindBlockInv ==
    ASSUME NodeInv, NEW hash, FindBlock(hash)
    PROVE  NodeInv'
<1>1. saved' = saved /\ sent' = sent /\ private' = private
  BY DEF FindBlock
<1>2. IsFile(saved')
  BY <1>1 DEF NodeInv
<1>3. ASSUME NEW v, Found(v, hash)
      PROVE  NodeInv'
  <2>1. /\ Sound(v) /\ WaitFor(v, {}, {}) /\ DOMAIN v.blocks = Stored \cup {hash}
        /\ v.mainTip \in {mainTip, hash} /\ hash \in Hashes
    BY <1>3, FoundIsSound
  <2>2. v.mainTip # NoHash
    BY <2>1, NoHashAssumption DEF NodeInv
  <2>3. Sound(Now') /\ mainTip' # NoHash /\ WaitFor(Now, {}, {})'
    BY <1>1, <1>3, <2>1, <2>2, BecomesSound DEF Found
  <2>4. /\ DOMAIN miner' = {"at", "tip", "hash", "stop", "cancel"}
        /\ miner'.at = "found" /\ miner'.tip = miner.tip /\ miner'.hash = hash
    BY <1>3 DEF Found, NodeInv, MinerOk
  <2>5. miner.tip \in Stored
    BY DEF FindBlock, NodeInv, MinerOk, TipIsKnown
  <2>6. Stored' = Stored \cup {hash}
    BY <1>3, <2>1 DEF Found, Become, Stored
  <2>7. MinerOk'
    BY <2>4, <2>5, <2>6 DEF MinerOk
  <2> QED BY <1>2, <2>3, <2>7 DEF NodeInv
<1>4. CASE Refused
  <2>1. Quiet
    BY <1>1, <1>4, SameIsQuiet DEF Refused
  <2>2. MinerOk'
    BY <1>4, IdleIsOk DEF Refused, OffMiner
  <2> QED BY <1>2, <2>1, <2>2, QuietInv
<1> QED BY <1>3, <1>4, FindBlockCases

\* Back in the loop the node is v: its pool and its private tip change.
Resumed(v) ==
    /\ v = ReconcileFrom(miner.tip, RecordTip(Now, miner.hash))
    /\ Proceed(v)

LEMMA ResumedIsSound ==
    ASSUME NodeInv, ResumeLoop, NEW v, Resumed(v)
    PROVE  /\ Sound(v) /\ SameTree(v, Now)
           /\ ~private => v.pending = pending /\ v.privateTip = privateTip
<1> DEFINE t == RecordTip(Now, miner.hash)
<1>1. Sound(Now) /\ IsNode(Now) /\ miner.tip \in Stored /\ IsSeq(pending)
  BY NowIs DEF NodeInv, MinerOk, ResumeLoop, Sound, TypesOf
<1>2. SameTree(t, Now) /\ t.pending = pending /\ (~private => t = Now)
  BY <1>1, NowIs DEF RecordTip, SameTree, IsNode, NowFields
<1>3. v = IF private THEN Reconcile(t, miner.tip, StateTip(t)) ELSE t
  BY DEF Resumed, ReconcileFrom
<1> HIDE DEF t
<1>4. Sound(t)
  BY <1>1, <1>2, NowIs, SameIsSound DEF SameTree
<1>5. CASE private
  <2>1. miner.tip \in DOMAIN t.blocks \cup {NoHash}
    BY <1>1, <1>2, NowIs DEF SameTree, Stored
  <2>2. StateTip(t) \in DOMAIN t.blocks \cup {NoHash}
    BY <1>4, StateTipIsStored
  <2>3. v = Reconcile(t, miner.tip, StateTip(t))
    BY <1>3, <1>5
  <2>4. SameTree(v, t) /\ Sound(v)
    BY <1>4, <2>1, <2>2, <2>3, ReconcileIsSound
  <2> QED BY <1>2, <1>5, <2>4 DEF SameTree
<1>6. CASE ~private
  <2>1. v = t /\ t = Now
    BY <1>2, <1>3, <1>6
  <2> QED BY <1>2, <1>4, <2>1, NowIs
<1> QED BY <1>5, <1>6

LEMMA ResumeCases ==
    ASSUME ResumeLoop
    PROVE  \E v : Resumed(v)
BY DEF ResumeLoop, Resumed

LEMMA ResumeInv ==
    ASSUME NodeInv, ResumeLoop
    PROVE  NodeInv'
<1> PICK v : Resumed(v)
  BY ResumeCases
<1>1. Sound(v) /\ SameTree(v, Now)
  BY ResumedIsSound
<1>2. /\ blocks' = v.blocks /\ states' = v.states /\ mainTip' = v.mainTip
      /\ pending' = v.pending /\ orphans' = v.orphans /\ orphanHashes' = v.orphanHashes
      /\ saved' = FileOf(v) \/ saved' = saved
  BY DEF Resumed, Proceed, PersistProgress, Become, Save
<1>3. private' = private /\ sent \subseteq sent'
  BY DEF ResumeLoop
<1>4. Quiet
  BY <1>1, <1>2, <1>3, NowIs DEF SameTree, Sound, TypesOf, Quiet
<1>5. MinerOk'
  <2>1. /\ DOMAIN miner' = {"at", "tip", "hash", "stop", "cancel"} /\ miner'.at = "loop"
    BY DEF ResumeLoop, NodeInv, MinerOk
  <2> QED BY <2>1, IdleIsOk
<1>6. IsFile(saved')
  <2>1. v.mainTip # NoHash
    BY <1>1, NowIs DEF SameTree, NodeInv
  <2> QED BY <1>1, <1>2, <2>1, FileOfIsFile DEF NodeInv
<1> QED BY <1>4, <1>5, <1>6, QuietInv

\* A restart, from the file or from the one that is written on the way out.
LEMMA RestartInv ==
    ASSUME NodeInv, Crash \/ Shutdown
    PROVE  NodeInv'
<1> PICK file : /\ RestartFrom(file) /\ saved' = file /\ IsFile(file)
  <2>1. CASE Crash
    BY <2>1 DEF Crash, NodeInv
  <2>2. CASE Shutdown
    <3>1. RestartFrom(FileOf(Now)) /\ saved' = FileOf(Now)
      BY <2>2 DEF Shutdown, Save
    <3>2. IsFile(FileOf(Now))
      BY FileOfIsFile, NowIs DEF NodeInv
    <3> QED BY <3>1, <3>2
  <2> QED BY <2>1, <2>2
<1> DEFINE s == Started(file)
<1>1. Sound(s) /\ s.mainTip # NoHash /\ WaitFor(s, {}, {})
  BY StartedIsSound
<1>2. Become(s) /\ sent' = sent /\ miner' = OffMiner
  BY DEF RestartFrom
<1> HIDE DEF s
<1>3. Sound(Now') /\ mainTip' # NoHash /\ WaitFor(Now, {}, {})'
  BY <1>1, <1>2, BecomesSound
<1>4. MinerOk'
  BY <1>2, IdleIsOk DEF OffMiner
<1> QED BY <1>3, <1>4 DEF NodeInv

LEMMA InitNodeInv == NodeInit => NodeInv
<1> SUFFICES ASSUME NodeInit PROVE NodeInv
  OBVIOUS
<1>1. /\ Sound(FreshNode) /\ FreshNode.mainTip = GenesisHash /\ FreshNode.pending = << >>
  BY FreshIsSound
<1>2. /\ IsNode(Now) /\ Now.blocks = FreshNode.blocks /\ Now.states = FreshNode.states
      /\ Now.mainTip = GenesisHash /\ Now.pending = << >>
      /\ Now.orphans = << >> /\ Now.orphanHashes = {}
  BY NowIsNode, NowIs DEF NodeInit
<1>3. Sound(Now)
  BY <1>1, <1>2, EmptyIsSeq, SameIsSound
<1>4. WaitFor(Now, {}, {})
  BY <1>2, NobodyWaits
<1>5. mainTip # NoHash
  BY <1>2, NowIs, GenesisHashAssumption, NoHashAssumption
<1>6. MinerOk
  BY DEF NodeInit, OffMiner, MinerOk
<1>7. IsFile(saved)
  <2>1. saved.chain = << >> /\ saved.blocks = << >> /\ saved.pending = << >>
    BY DEF NodeInit, NoFile
  <2>2. DOMAIN saved.blocks = {} /\ ToSet(saved.chain) = {} /\ saved.chain \in Seq(Hashes)
    BY <2>1 DEF ToSet
  <2> QED BY <2>1, <2>2, EmptyIsSeq DEF IsFile
<1> QED BY <1>3, <1>4, <1>5, <1>6, <1>7 DEF NodeInv

LEMMA NextNodeInv == NodeInv /\ [NodeNext]_allVars => NodeInv'
<1> SUFFICES ASSUME NodeInv, [NodeNext]_allVars PROVE NodeInv'
  OBVIOUS
<1>1. CASE HandlerStep
  <2>1. ASSUME NEW hash \in DOMAIN PeerBlocks, HandleBlock(hash) PROVE NodeInv'
    BY <2>1, BlockIsHandled, HandledInv
  <2>2. ASSUME NEW chunk \in Chunks, NEW activeFastSync \in BOOLEAN,
               HandleChain(chunk, activeFastSync)
        PROVE  NodeInv'
    BY <2>2, ChainIsHandled, HandledInv
  <2>3. CASE HandleSyncComplete
    BY <2>3, SyncCompleteInv
  <2>4. ASSUME NEW tx \in Transactions, HandleTransaction(tx) PROVE NodeInv'
    BY <2>4, TransactionInv
  <2> QED BY <1>1, <2>1, <2>2, <2>3, <2>4 DEF HandlerStep
<1>2. CASE AutomineStep
  <2>1. CASE StartAutomine \/ SearchCancelled \/ EndAutomine
    BY <2>1, IdleInv
  <2>2. CASE StopAutomine
    BY <2>2, StopInv
  <2>3. CASE BeginSearch
    BY <2>3, BeginSearchInv
  <2>4. CASE Select
    BY <2>4, SelectInv
  <2>5. ASSUME NEW hash \in Hashes, FindBlock(hash) PROVE NodeInv'
    BY <2>5, FindBlockInv
  <2>6. CASE ResumeLoop
    BY <2>6, ResumeInv
  <2> QED BY <1>2, <2>1, <2>2, <2>3, <2>4, <2>5, <2>6 DEF AutomineStep
<1>3. CASE Crash \/ Shutdown
  BY <1>3, RestartInv
<1>4. CASE UNCHANGED allVars
  <2>1. Quiet /\ TipStays /\ miner' = miner /\ candidate' = candidate /\ saved' = saved
    BY <1>4, SameIsQuiet DEF allVars, vars, nodeVars, chainVars
  <2>2. TipIsKnown => TipIsKnown'
    BY <2>1, QuietKnowsTip
  <2>3. MinerOk'
    BY <2>1, <2>2 DEF NodeInv, MinerOk, Quiet, Stored
  <2> QED BY <2>1, <2>3, QuietInv DEF NodeInv
<1> QED BY <1>1, <1>2, <1>3, <1>4 DEF NodeNext

\* The invariant holds of the code as modelled: for any blocks and chunks from
\* peers, in any order, and restarts anywhere.
THEOREM NodeInvHolds == NodeSpec => []NodeInv
BY InitNodeInv, NextNodeInv, PTL DEF NodeSpec

\* An orphan waits under its parent, once, and only while that is missing:
\* _handle_incoming_block, _handle_chain_response and the mining thread leave
\* none behind that could be tried.
THEOREM OrphansWaitForParents == NodeSpec => []OrphansWait
<1>1. NodeInv => OrphansWait
  <2> SUFFICES ASSUME NodeInv PROVE OrphansWait
    OBVIOUS
  <2>1. WaitFor(Now, {}, {})
    BY DEF NodeInv
  <2>2. ListedIn(Now) = Listed
    BY NowIs DEF ListedIn, Listed
  <2> QED BY <2>1, <2>2, NowIs DEF WaitFor, OrphansWait, Stored
<1> QED BY <1>1, NodeInvHolds, PTL

----------------------------------------------------------------------------
(* The search.                                                             *)

\* The tip to mine on changes only by blocks that arrive or are found, and a
\* block that arrives tells the search.
SearchIsTold ==
    (miner.at = "searching" /\ miner'.at = "searching" /\ StateTip(Now)' # StateTip(Now))
    => miner'.cancel

LEMMA HandledTells ==
    ASSUME NodeInv, NEW v, Handled(v)
    PROVE  SearchIsTold
<1> SUFFICES ASSUME miner.at = "searching", StateTip(Now)' # StateTip(Now)
             PROVE  miner'.cancel
  BY DEF SearchIsTold
<1> DEFINE w == Touched(Now)
<1>1. /\ w.blocks = blocks /\ w.mainTip = mainTip
      /\ w.privateTip = IF private THEN StateTip(Now) ELSE privateTip
  BY TouchedIsReady
<1>2. Grown(v, w, FALSE) /\ Sound(v) /\ TipIsKnown
  BY DEF Handled, Grown, NodeInv, MinerOk
<1>3. /\ states' = v.states /\ mainTip' = v.mainTip
      /\ privateTip' = v.privateTip /\ private' = private
      /\ miner' = [miner EXCEPT !.cancel = v.cancel]
      /\ DOMAIN miner = {"at", "tip", "hash", "stop", "cancel"}
  BY DEF Handled, Become, NodeInv, MinerOk
<1> HIDE DEF w
<1>4. v.cancel
  <2>1. CASE private
    <3>1. w.privateTip = StateTip(Now) /\ IsAncestor(Now, miner.tip, StateTip(Now))
      BY <1>1, <1>2, <2>1 DEF TipIsKnown
    <3>2. IsAncestor(w, miner.tip, w.privateTip)
      BY <1>1, <3>1, NowIs DEF IsAncestor
    <3>3. TellsPrivate(v, w)
      BY <1>2, <2>1 DEF Grown
    <3>4. StateTip(Now)' = v.privateTip
      BY <1>2, <1>3, <2>1, <3>3 DEF TellsPrivate, StateTip, Now, Sound, TypesOf
    <3> QED BY <3>1, <3>2, <3>3, <3>4 DEF TellsPrivate
  <2>2. CASE ~private
    <3>1. StateTip(Now) = mainTip /\ StateTip(Now)' = v.mainTip
      BY <1>3, <2>2 DEF StateTip, Now
    <3>2. miner.tip \in DOMAIN w.blocks
      BY <1>1, <1>2 DEF TipIsKnown, Stored
    <3> QED BY <1>1, <1>2, <2>2, <3>1, <3>2 DEF Grown, TellsPublic
  <2> QED BY <2>1, <2>2
<1> QED BY <1>3, <1>4

LEMMA QuietTells ==
    ASSUME NodeInv, Quiet, TipStays
    PROVE  SearchIsTold
BY QuietStateTip DEF SearchIsTold

LEMMA NextTells == NodeInv /\ [NodeNext]_allVars => SearchIsTold
<1> SUFFICES ASSUME NodeInv, [NodeNext]_allVars PROVE SearchIsTold
  OBVIOUS
<1>1. CASE HandlerStep
  <2>1. ASSUME NEW hash \in DOMAIN PeerBlocks, HandleBlock(hash) PROVE SearchIsTold
    BY <2>1, BlockIsHandled, HandledTells
  <2>2. ASSUME NEW chunk \in Chunks, NEW activeFastSync \in BOOLEAN,
               HandleChain(chunk, activeFastSync)
        PROVE  SearchIsTold
    BY <2>2, ChainIsHandled, HandledTells
  <2>3. CASE HandleSyncComplete
    BY <2>3, SyncCompleteInv, QuietTells
  <2>4. ASSUME NEW tx \in Transactions, HandleTransaction(tx) PROVE SearchIsTold
    BY <2>4, TransactionInv, QuietTells
  <2> QED BY <1>1, <2>1, <2>2, <2>3, <2>4 DEF HandlerStep
<1>2. CASE AutomineStep
  <2>1. CASE StartAutomine \/ SearchCancelled \/ EndAutomine
    BY <2>1, IdleInv, QuietTells
  <2>2. CASE StopAutomine
    BY <2>2, StopInv, QuietTells
  <2>3. CASE BeginSearch
    BY <2>3, BeginSearchInv, QuietTells
  <2>4. CASE Select
    BY <2>4, SelectInv, QuietTells
  <2>5. ASSUME NEW hash \in Hashes, FindBlock(hash) PROVE SearchIsTold
    <3>1. ASSUME NEW v, Found(v, hash) PROVE miner'.at # "searching"
      BY <3>1 DEF Found, NodeInv, MinerOk
    <3>2. Refused => miner'.at # "searching"
      BY DEF Refused, OffMiner
    <3> QED BY <2>5, <3>1, <3>2, FindBlockCases DEF SearchIsTold
  <2>6. CASE ResumeLoop
    BY <2>6 DEF ResumeLoop, NodeInv, MinerOk, SearchIsTold
  <2> QED BY <1>2, <2>1, <2>2, <2>3, <2>4, <2>5, <2>6 DEF AutomineStep
<1>3. CASE Crash \/ Shutdown
  BY <1>3 DEF Crash, Shutdown, RestartFrom, OffMiner, SearchIsTold
<1>4. CASE UNCHANGED allVars
  BY <1>4, SameIsQuiet, QuietTells DEF allVars, vars, nodeVars, chainVars
<1> QED BY <1>1, <1>2, <1>3, <1>4 DEF NodeNext

\* _handle_accepted_block_for_automine: in whatever step the tip to mine on
\* becomes another one, a search under way has its cancel flag set.
THEOREM StaleSearchIsTold == NodeSpec => StaleSearchIsCancelled
<1>1. NodeInv /\ [NodeNext]_allVars =>
        [(/\ miner.at = "searching" /\ miner'.at = "searching"
          /\ StateTip(Now)' # StateTip(Now))
         => miner'.cancel]_allVars
  BY NextTells DEF SearchIsTold
<1> QED BY <1>1, NodeInvHolds, PTL DEF NodeSpec, StaleSearchIsCancelled

----------------------------------------------------------------------------
(* What is not in the file.                                                *)

\* The blocks mined since the file was written, and the one just found.
Mined == unsaved + (IF miner.at = "found" THEN 1 ELSE 0)

ProgressOk ==
    /\ unsaved \in Nat /\ (PersistInterval # 0 => unsaved < PersistInterval)
    /\ ~private /\ ~deferred => IsFiniteSet(Unwritten) /\ Cardinality(Unwritten) <= Mined

LEMMA ChainIsStored ==
    ASSUME NEW w, Sound(w), w.mainTip # NoHash
    PROVE  ToSet(ChainTo(w.blocks, w.mainTip)) \subseteq DOMAIN w.blocks
<1>1. w.mainTip \in DOMAIN w.blocks
  BY DEF Sound, TipOf
<1>2. ChainTo(w.blocks, w.mainTip) \in Seq(DOMAIN w.blocks)
  BY <1>1, SoundIsTree, ChainsGrow
<1> QED BY <1>2 DEF ToSet

LEMMA NothingIsUnwritten ==
    ASSUME ProgressOk, unsaved' \in Nat, PersistInterval # 0 => unsaved' < PersistInterval,
           ~private' /\ ~deferred' => Unwritten' = {}
    PROVE  ProgressOk'
<1>1. IsFiniteSet({}) /\ Cardinality({}) = 0
  BY FS_EmptySet
<1>2. Mined' \in Nat
  <2>1. PICK u \in Nat : u = unsaved'
    OBVIOUS
  <2>2. Mined' = u + 1 \/ Mined' = u + 0
    BY <2>1 DEF Mined
  <2>3. u + 1 \in Nat /\ u + 0 \in Nat
    OBVIOUS
  <2> QED BY ONLY <2>2, <2>3
<1> QED BY <1>1, <1>2 DEF ProgressOk

\* The file of the node that a step leaves behind.
LEMMA FileHasAll ==
    ASSUME NEW v, saved' = FileOf(v), blocks' = v.blocks, mainTip' = v.mainTip
    PROVE  Unwritten' = {}
<1>1. DOMAIN saved'.blocks = ToSet(ChainTo(v.blocks, v.mainTip))
  BY DEF FileOf
<1>2. Unwritten' = ToSet(ChainTo(blocks', mainTip')) \ (DOMAIN saved'.blocks \cup {GenesisHash})
  BY DEF Unwritten
<1> QED BY <1>1, <1>2

LEMMA SameIsUnwritten ==
    ASSUME ProgressOk, blocks' = blocks, mainTip' = mainTip, saved' = saved, unsaved' = unsaved,
           private' = private, deferred' <=> deferred, miner'.at = "found" <=> miner.at = "found"
    PROVE  ProgressOk'
<1>1. Unwritten' = Unwritten /\ Mined' = Mined
  BY DEF Unwritten, Mined
<1> QED BY <1>1 DEF ProgressOk

LEMMA HandledProgress ==
    ASSUME NodeInv, ProgressOk, NEW v, Handled(v)
    PROVE  ProgressOk'
<1>1. /\ blocks' = v.blocks /\ mainTip' = v.mainTip /\ unsaved' = unsaved /\ private' = private
      /\ miner'.at = miner.at
  BY DEF Handled, Become, NodeInv, MinerOk
<1>2. CASE saved' = FileOf(v)
  BY <1>1, <1>2, FileHasAll, NothingIsUnwritten DEF ProgressOk
<1>3. CASE deferred'
  BY <1>1, <1>3, NothingIsUnwritten DEF ProgressOk
<1>4. CASE saved' = saved /\ (deferred' <=> deferred) /\ blocks' = blocks /\ mainTip' = mainTip
  BY <1>1, <1>4, SameIsUnwritten
<1> QED BY <1>2, <1>3, <1>4 DEF Handled

\* The chain after a block is found: the tip that is mined on is still the
\* main tip if the block becomes the main tip.
LEMMA FoundChain ==
    ASSUME NodeInv, ~private, NEW hash, FindBlock(hash), NEW v, Found(v, hash)
    PROVE  \/ /\ v.mainTip = mainTip
              /\ ChainTo(v.blocks, v.mainTip) = ChainTo(blocks, mainTip)
           \/ /\ v.mainTip = hash /\ miner.tip = mainTip
              /\ ChainTo(v.blocks, v.mainTip) = Append(ChainTo(blocks, mainTip), hash)
<1>1. /\ Sound(v) /\ Extends(v, Now) /\ DOMAIN v.blocks = Stored \cup {hash}
      /\ v.blocks[hash] = candidate /\ hash \in Hashes \ Stored
      /\ v.mainTip \in {mainTip, hash}
      /\ v.mainTip = hash => BecomesTipOf(Now, candidate)
  BY FoundIsSound
<1>2. /\ Sound(Now) /\ TipIsKnown /\ candidate.previous_hash = miner.tip
  BY DEF NodeInv, MinerOk, FindBlock
<1>3. mainTip \in DOMAIN Now.blocks /\ miner.tip \in Stored /\ NoHash \notin Stored
  BY <1>2, NowIs, StoredIsNow DEF TipIsKnown, Stored
<1>4. ChainTo(v.blocks, mainTip) = ChainTo(Now.blocks, mainTip)
  BY <1>1, <1>2, <1>3, SoundIsTree, ChainsStay DEF Extends
<1>5. CASE v.mainTip = mainTip
  BY <1>4, <1>5, NowIs
<1>6. CASE v.mainTip = hash
  <2>1. ExtendsParentIn(Now, candidate)
    BY StatusCases DEF Found
  <2>2. candidate.block_id = Height(miner.tip) + 1
    BY <2>1, <1>2, <1>3, NowIs DEF ExtendsParentIn, Height
  <2>3. candidate.block_id > Height(mainTip)
    BY <1>1, <1>6, NowIs DEF BecomesTipOf, NodeInv, Height
  <2>4. Height(miner.tip) \in Nat /\ Height(mainTip) \in Nat
    BY <1>3, StoredIsNow
  <2>5. miner.tip = mainTip
    BY <1>2, <2>2, <2>3, <2>4 DEF TipIsKnown
  <2>6. ChainTo(v.blocks, hash) = Append(ChainTo(v.blocks, miner.tip), hash)
    BY <1>1, <1>2, SoundIsTree, ChainsGrow
  <2> QED BY <1>4, <1>6, <2>5, <2>6, NowIs
<1> QED BY <1>1, <1>5, <1>6

LEMMA FoundProgress ==
    ASSUME NodeInv, ProgressOk, NEW hash, FindBlock(hash), NEW v, Found(v, hash)
    PROVE  ProgressOk'
<1>1. /\ blocks' = v.blocks /\ mainTip' = v.mainTip /\ unsaved' = unsaved /\ private' = private
      /\ deferred' = deferred /\ saved' = saved
      /\ miner.at = "searching" /\ miner'.at = "found"
  BY DEF Found, FindBlock, Become, NodeInv, MinerOk
<1> SUFFICES ASSUME ~private, ~deferred
             PROVE  IsFiniteSet(Unwritten') /\ Cardinality(Unwritten') <= unsaved + 1
  BY <1>1 DEF ProgressOk, Mined
<1>2. IsFiniteSet(Unwritten) /\ Cardinality(Unwritten) <= unsaved
  BY <1>1 DEF ProgressOk, Mined
<1>3. Unwritten' \subseteq Unwritten \cup {hash}
  <2>1. CASE ChainTo(v.blocks, v.mainTip) = ChainTo(blocks, mainTip)
    BY <1>1, <2>1 DEF Unwritten
  <2>2. CASE ChainTo(v.blocks, v.mainTip) = Append(ChainTo(blocks, mainTip), hash)
    <3>1. IsSeq(ChainTo(blocks, mainTip))
      <4>1. ChainTo(Now.blocks, mainTip) \in Seq(DOMAIN Now.blocks)
        BY SoundIsTree, ChainsGrow, StoredIsNow, NowIs DEF NodeInv, Stored
      <4> QED BY <4>1, NowIs DEF IsSeq
    <3>2. ToSet(ChainTo(v.blocks, v.mainTip)) = ToSet(ChainTo(blocks, mainTip)) \cup {hash}
      BY <2>2, <3>1, PushedIsSeq
    <3> QED BY <1>1, <3>2 DEF Unwritten
  <2> QED BY <2>1, <2>2, FoundChain
<1>4. /\ IsFiniteSet(Unwritten \cup {hash})
      /\ Cardinality(Unwritten \cup {hash}) <= Cardinality(Unwritten) + 1
  <2>1. Cardinality(Unwritten) \in Nat
    BY <1>2, FS_CardinalityType
  <2> QED BY <1>2, <2>1, FS_AddElement
<1>5. /\ IsFiniteSet(Unwritten')
      /\ Cardinality(Unwritten') <= Cardinality(Unwritten \cup {hash})
  BY <1>3, <1>4, FS_Subset
<1>6. /\ Cardinality(Unwritten') \in Nat /\ Cardinality(Unwritten \cup {hash}) \in Nat
      /\ Cardinality(Unwritten) \in Nat /\ unsaved \in Nat
  BY <1>2, <1>4, <1>5, FS_CardinalityType DEF ProgressOk
<1>7. Cardinality(Unwritten') <= unsaved + 1
  <2> DEFINE a == Cardinality(Unwritten')
             b == Cardinality(Unwritten \cup {hash})
             c == Cardinality(Unwritten)
  <2>1. a <= b /\ b <= c + 1 /\ c <= unsaved /\ a \in Nat /\ b \in Nat /\ c \in Nat
        /\ unsaved \in Nat
    BY <1>2, <1>4, <1>5, <1>6
  <2>2. a <= unsaved + 1
    <3> HIDE DEF a, b, c
    <3> QED BY <2>1
  <2> QED BY <2>2
<1> QED BY <1>5, <1>7

LEMMA ResumeProgress ==
    ASSUME NodeInv, ProgressOk, ResumeLoop
    PROVE  ProgressOk'
<1> PICK v : Resumed(v)
  BY ResumeCases
<1>1. SameTree(v, Now)
  BY ResumedIsSound
<1>2. /\ blocks' = v.blocks /\ mainTip' = v.mainTip /\ PersistProgress(v)
      /\ blocks' = blocks /\ mainTip' = mainTip
      /\ private' = private /\ deferred' = deferred
      /\ miner.at = "found" /\ miner'.at = "loop"
  BY <1>1, NowIs DEF Resumed, Proceed, Become, SameTree, ResumeLoop, NodeInv, MinerOk
<1>3. CASE PersistInterval # 0 /\ unsaved + 1 >= PersistInterval
  <2>1. unsaved' = 0 /\ saved' = FileOf(v)
    BY <1>2, <1>3 DEF PersistProgress, Save
  <2>2. Unwritten' = {}
    BY <1>2, <2>1, FileHasAll
  <2>3. PersistInterval # 0 => 0 < PersistInterval
    BY PersistIntervalAssumption
  <2> QED BY <2>1, <2>2, <2>3, NothingIsUnwritten
<1>4. CASE ~(PersistInterval # 0 /\ unsaved + 1 >= PersistInterval)
  <2>1. unsaved' = unsaved + 1 /\ saved' = saved
    BY <1>2, <1>4 DEF PersistProgress
  <2>2. Unwritten' = Unwritten /\ Mined = unsaved + 1 /\ Mined' = unsaved'
    BY <1>2, <2>1 DEF Unwritten, Mined, ProgressOk
  <2> QED BY <1>2, <1>4, <2>1, <2>2, PersistIntervalAssumption DEF ProgressOk
<1> QED BY <1>3, <1>4

LEMMA RestartProgress ==
    ASSUME NodeInv, ProgressOk, Crash \/ Shutdown
    PROVE  ProgressOk'
<1> PICK file : /\ RestartFrom(file) /\ saved' = file /\ IsFile(file)
  <2>1. CASE Crash
    BY <2>1 DEF Crash, NodeInv
  <2>2. CASE Shutdown
    <3>1. RestartFrom(FileOf(Now)) /\ saved' = FileOf(Now)
      BY <2>2 DEF Shutdown, Save
    <3>2. IsFile(FileOf(Now))
      BY FileOfIsFile, NowIs DEF NodeInv
    <3> QED BY <3>1, <3>2
  <2> QED BY <2>1, <2>2
<1> DEFINE s == Started(file)
<1>1. Sound(s) /\ s.mainTip # NoHash /\ (s = FreshNode \/ RestoredFrom(s, file))
  BY StartedIsSound
<1>2. blocks' = s.blocks /\ mainTip' = s.mainTip /\ unsaved' = 0
  BY DEF RestartFrom, Become
<1> HIDE DEF s
<1>3. ToSet(ChainTo(s.blocks, s.mainTip)) \subseteq DOMAIN s.blocks
  BY <1>1, ChainIsStored
<1>4. DOMAIN s.blocks = {GenesisHash} \/ DOMAIN s.blocks = DOMAIN file.blocks
  BY <1>1, FreshIsSound DEF RestoredFrom, IsFile
<1>5. Unwritten' = {}
  BY <1>2, <1>3, <1>4 DEF Unwritten
<1>6. PersistInterval # 0 => 0 < PersistInterval
  BY PersistIntervalAssumption
<1> QED BY <1>2, <1>5, <1>6, NothingIsUnwritten

LEMMA InitProgress == NodeInit => ProgressOk
<1> SUFFICES ASSUME NodeInit PROVE ProgressOk
  OBVIOUS
<1>1. /\ blocks = FreshNode.blocks /\ mainTip = GenesisHash /\ unsaved = 0
  BY DEF NodeInit
<1>2. FreshNode.mainTip # NoHash
  BY FreshIsSound, GenesisHashAssumption, NoHashAssumption
<1>3. ToSet(ChainTo(blocks, mainTip)) \subseteq {GenesisHash}
  BY <1>1, <1>2, FreshIsSound, ChainIsStored
<1>4. Unwritten = {}
  BY <1>3 DEF Unwritten
<1>5. IsFiniteSet({}) /\ Cardinality({}) = 0 /\ Mined \in Nat
  BY <1>1, FS_EmptySet DEF Mined
<1> QED BY <1>1, <1>4, <1>5, PersistIntervalAssumption DEF ProgressOk

LEMMA NextProgress == NodeInv /\ ProgressOk /\ [NodeNext]_allVars => ProgressOk'
<1> SUFFICES ASSUME NodeInv, ProgressOk, [NodeNext]_allVars PROVE ProgressOk'
  OBVIOUS
<1>1. CASE HandlerStep
  <2>1. ASSUME NEW hash \in DOMAIN PeerBlocks, HandleBlock(hash) PROVE ProgressOk'
    BY <2>1, BlockIsHandled, HandledProgress
  <2>2. ASSUME NEW chunk \in Chunks, NEW activeFastSync \in BOOLEAN,
               HandleChain(chunk, activeFastSync)
        PROVE  ProgressOk'
    BY <2>2, ChainIsHandled, HandledProgress
  <2>3. CASE HandleSyncComplete
    <3>1. saved' = FileOf(Now) /\ blocks' = Now.blocks /\ mainTip' = Now.mainTip
          /\ unsaved' = unsaved
      BY <2>3, NowIs DEF HandleSyncComplete, Save, vars
    <3> QED BY <3>1, FileHasAll, NothingIsUnwritten DEF ProgressOk
  <2>4. ASSUME NEW tx \in Transactions, HandleTransaction(tx) PROVE ProgressOk'
    <3> DEFINE v == [Touched(Now) EXCEPT !.pending = Append(@, tx)]
    <3>1. Settle(v, TRUE) /\ unsaved' = unsaved
      BY <2>4 DEF HandleTransaction
    <3> HIDE DEF v
    <3>2. saved' = FileOf(v) /\ blocks' = v.blocks /\ mainTip' = v.mainTip
      BY <3>1 DEF Settle, Save, Become
    <3> QED BY <3>1, <3>2, FileHasAll, NothingIsUnwritten DEF ProgressOk
  <2> QED BY <1>1, <2>1, <2>2, <2>3, <2>4 DEF HandlerStep
<1>2. CASE AutomineStep
  <2>1. CASE StartAutomine \/ SearchCancelled \/ EndAutomine
    <3>1. Quiet
      BY <2>1, IdleInv
    <3>2. saved' = saved /\ unsaved' = unsaved /\ deferred' = deferred
          /\ miner.at # "found" /\ miner'.at # "found"
      BY <2>1 DEF StartAutomine, SearchCancelled, EndAutomine, OffMiner
    <3> QED BY <3>1, <3>2, SameIsUnwritten DEF Quiet
  <2>2. CASE StopAutomine
    <3>1. Quiet
      BY <2>2, StopInv
    <3>2. saved' = saved /\ unsaved' = unsaved /\ deferred' = deferred /\ miner'.at = miner.at
      BY <2>2 DEF StopAutomine, NodeInv, MinerOk
    <3> QED BY <3>1, <3>2, SameIsUnwritten DEF Quiet
  <2>3. CASE BeginSearch \/ Select
    <3>1. Quiet
      BY <2>3, BeginSearchInv, SelectInv
    <3>2. saved' = saved /\ unsaved' = unsaved /\ deferred' = deferred
          /\ miner.at # "found" /\ miner'.at # "found"
      BY <2>3 DEF BeginSearch, Select, NodeInv, MinerOk
    <3> QED BY <3>1, <3>2, SameIsUnwritten DEF Quiet
  <2>4. ASSUME NEW hash \in Hashes, FindBlock(hash) PROVE ProgressOk'
    <3>1. ASSUME NEW v, Found(v, hash) PROVE ProgressOk'
      BY <2>4, <3>1, FoundProgress
    <3>2. CASE Refused
      <4>1. blocks' = blocks /\ mainTip' = mainTip /\ saved' = saved /\ unsaved' = unsaved
            /\ private' = private /\ deferred' = deferred
            /\ miner.at # "found" /\ miner'.at # "found"
        BY <2>4, <3>2 DEF FindBlock, Refused, OffMiner, chainVars
      <4> QED BY <4>1, SameIsUnwritten
    <3> QED BY <2>4, <3>1, <3>2, FindBlockCases
  <2>5. CASE ResumeLoop
    BY <2>5, ResumeProgress
  <2> QED BY <1>2, <2>1, <2>2, <2>3, <2>4, <2>5 DEF AutomineStep
<1>3. CASE Crash \/ Shutdown
  BY <1>3, RestartProgress
<1>4. CASE UNCHANGED allVars
  BY <1>4, SameIsUnwritten DEF allVars, vars, nodeVars
<1> QED BY <1>1, <1>2, <1>3, <1>4 DEF NodeNext

\* _save_mined_block_progress and the saves of the handlers: outside a sync, a
\* crash takes no more of the main chain than the blocks of one interval.
THEOREM CrashesLoseFewBlocks == NodeSpec => []CrashLosesFewBlocks
<1>1. ProgressOk => CrashLosesFewBlocks
  <2> SUFFICES ASSUME ProgressOk, ~private, ~deferred, PersistInterval # 0
               PROVE  Cardinality(Unwritten)
                          <= PersistInterval - (IF miner.at = "found" THEN 0 ELSE 1)
    BY DEF CrashLosesFewBlocks
  <2>1. /\ unsaved \in Nat /\ unsaved < PersistInterval /\ PersistInterval \in Nat
        /\ IsFiniteSet(Unwritten) /\ Cardinality(Unwritten) <= Mined
    BY PersistIntervalAssumption DEF ProgressOk
  <2> DEFINE c == Cardinality(Unwritten)
  <2>2. c \in Nat /\ c <= Mined
    BY <2>1, FS_CardinalityType
  <2> HIDE DEF c
  <2>3. c <= PersistInterval - (IF miner.at = "found" THEN 0 ELSE 1)
    BY <2>1, <2>2 DEF Mined
  <2> QED BY <2>3 DEF c
<1>2. NodeSpec => []ProgressOk
  BY InitProgress, NextProgress, NodeInvHolds, PTL DEF NodeSpec
<1> QED BY <1>1, <1>2, PTL

----------------------------------------------------------------------------
(* The file of a node in public loads.                                     *)

\* The first n blocks of a node's file are read, and are as they were there.
ReadBack(loaded, w, n) ==
    LET chain == ChainTo(w.blocks, w.mainTip)
    IN  /\ ReadFrom(loaded, FileOf(w), n) /\ loaded.ok
        /\ \A h \in DOMAIN loaded.w.blocks : loaded.w.states[h] = w.states[h]
        /\ loaded.w.mainTip = IF n = 0 THEN NoHash ELSE chain[n]

LEMMA ReadsNextBack ==
    ASSUME NEW w, Sound(w), w.mainTip # NoHash, NEW n \in Nat,
           n + 1 \in 1 .. Len(FileOf(w).chain),
           NEW loaded, ReadBack(loaded, w, n)
    PROVE  LET file == FileOf(w)
           IN  ReadBack(LoadNext(loaded, file.chain[n + 1], file.blocks[file.chain[n + 1]]),
                        w, n + 1)
<1> DEFINE chain   == ChainTo(w.blocks, w.mainTip)
           file    == FileOf(w)
           hash    == chain[n + 1]
           block   == w.blocks[hash]
           parent  == block.previous_hash
           applied == AppliedTo(loaded.w, block)
           before  == StateIn(w, parent).ledger
           v       == StoredIn(loaded.w, hash, block, applied)
           next    == LoadNext(loaded, hash, block)
<1>1. /\ chain \in Seq(DOMAIN w.blocks)
      /\ \A i \in 1 .. Len(chain) :
            /\ w.states[chain[i]].height = i - 1
            /\ w.blocks[chain[i]].previous_hash = IF i = 1 THEN NoHash ELSE chain[i - 1]
  <2>1. w.mainTip \in DOMAIN w.blocks
    BY DEF Sound, TipOf
  <2>2. IsChain(w.blocks, HeightsOf(w), chain, w.mainTip)
    BY <2>1, SoundIsTree, ChainShape
  <2> HIDE DEF chain
  <2>3. chain \in Seq(DOMAIN w.blocks)
    BY <2>2 DEF IsChain
  <2>4. \A i \in 1 .. Len(chain) : HeightsOf(w)[chain[i]] = w.states[chain[i]].height
    BY <2>3 DEF HeightsOf
  <2> QED BY <2>2, <2>3, <2>4 DEF IsChain
<1>2. /\ file.chain = chain /\ DOMAIN file.blocks = ToSet(chain)
      /\ \A h \in ToSet(chain) : file.blocks[h] = w.blocks[h]
  BY DEF FileOf
<1>3. n + 1 \in 1 .. Len(chain)
  BY <1>2
<1>4. /\ hash \in DOMAIN w.blocks /\ hash \in ToSet(chain) /\ hash \in Hashes
      /\ file.chain[n + 1] = hash /\ file.blocks[hash] = block
  <2> HIDE DEF chain, file
  <2>1. hash \in DOMAIN w.blocks /\ hash \in ToSet(chain)
    BY <1>1, <1>3 DEF ToSet
  <2> QED BY <1>2, <2>1 DEF Sound, TypesOf
<1>5. /\ ReadFrom(loaded, file, n) /\ loaded.ok
      /\ loaded.w.mainTip = (IF n = 0 THEN NoHash ELSE chain[n])
      /\ \A h \in DOMAIN loaded.w.blocks : loaded.w.states[h] = w.states[h]
  BY DEF ReadBack
<1>6. /\ DOMAIN loaded.w.blocks = {chain[i] : i \in 1 .. n}
      /\ Sound(loaded.w) /\ IsNode(loaded.w) /\ loaded.w.pending = << >>
      /\ \A h \in DOMAIN loaded.w.blocks : loaded.w.blocks[h] = file.blocks[h]
  BY <1>2, <1>5 DEF ReadFrom
<1> HIDE DEF file
<1>7. /\ w.states[hash].height = n /\ block.block_id = n
      /\ parent = IF n = 0 THEN NoHash ELSE chain[n]
      /\ n # 0 => chain[n] \in DOMAIN w.blocks /\ w.states[chain[n]].height = n - 1
  <2> HIDE DEF chain
  <2>1. w.states[hash].height = n /\ parent = IF n = 0 THEN NoHash ELSE chain[n]
    <3>1. /\ w.states[chain[n + 1]].height = (n + 1) - 1
          /\ w.blocks[chain[n + 1]].previous_hash
                = IF n + 1 = 1 THEN NoHash ELSE chain[(n + 1) - 1]
      BY <1>1, <1>3, Zenon
    <3>2. (n + 1) - 1 = n /\ (n + 1 = 1 <=> n = 0)
      OBVIOUS
    <3> QED BY <3>1, <3>2
  <2>2. w.states[hash].height = block.block_id
    BY <1>4 DEF Sound, TypesOf
  <2>3. n # 0 => n \in 1 .. Len(chain)
    BY <1>1, <1>3
  <2>4. n # 0 => chain[n] \in DOMAIN w.blocks /\ w.states[chain[n]].height = n - 1
    BY <1>1, <2>3
  <2> QED BY <2>1, <2>2, <2>4
<1>8. hash \notin DOMAIN loaded.w.blocks
  <2> HIDE DEF chain
  <2>1. \A i \in 1 .. n : w.states[chain[i]].height # n
    BY <1>1, <1>3
  <2> QED BY <1>6, <1>7, <2>1
<1> HIDE DEF chain, hash, block
<1>9. /\ NoHash \notin DOMAIN loaded.w.blocks
      /\ n = 0 => DOMAIN loaded.w.blocks = {}
      /\ n # 0 => /\ parent \in DOMAIN loaded.w.blocks
                  /\ loaded.w.states[parent] = w.states[parent]
      /\ DOMAIN loaded.w.states = DOMAIN loaded.w.blocks
  BY <1>5, <1>6, <1>7, NoHashAssumption DEF Sound, TypesOf
<1>10. /\ parent = NoHash => IsGenesis(block)
       /\ IsValidChild(block, before) /\ w.states[hash] = ChildState(block, before)
  BY <1>4 DEF Sound, ReplayOf, block
<1>11. parent # NoHash <=> n # 0
  <2>1. NoHash \notin DOMAIN w.blocks
    BY NoHashAssumption DEF Sound, TypesOf
  <2> QED BY <1>7, <2>1
<1>12. applied = AppliedBlock(block, before)
  BY <1>9, <1>11 DEF AppliedTo, StateIn, FreshState
<1>13. ExtendsParentIn(loaded.w, block)
  <2>1. CASE n = 0
    BY <2>1, <1>9, <1>10, <1>11 DEF ExtendsParentIn
  <2>2. CASE n # 0
    <3>1. loaded.w.states[parent].height = n - 1
      BY <2>2, <1>7, <1>9
    <3> QED BY <2>2, <3>1, <1>7, <1>9, <1>11 DEF ExtendsParentIn
  <2> QED BY <2>1, <2>2
<1>14. /\ IsWellFormed(block) /\ ClaimsItsFees(block, applied)
       /\ [height |-> block.block_id, ledger |-> applied.ledger] = w.states[hash]
  BY <1>10, <1>12 DEF IsValidChild, ChildState
<1>15. parent \in DOMAIN loaded.w.blocks \cup {NoHash}
  BY <1>9, <1>11
<1> HIDE DEF parent, before
<1>16. Status(loaded.w, hash, block, applied) = "accepted"
  BY <1>8, <1>13, <1>14, <1>15, StatusCases DEF parent
<1>17. BecomesTipOf(loaded.w, block)
  <2>1. CASE n = 0
    BY <2>1, <1>5 DEF BecomesTipOf
  <2>2. CASE n # 0
    <3>1. loaded.w.states[loaded.w.mainTip].height = n - 1
      BY <2>2, <1>5, <1>7, <1>9, <1>11
    <3> QED BY <2>2, <3>1, <1>7 DEF BecomesTipOf
  <2> QED BY <2>1, <2>2
<1>18. Gains(v, loaded.w, hash, block, applied)
  BY <1>6, StoredGains
<1>19. next.ok /\ next.w = v
  BY <1>5, <1>16 DEF LoadNext, LoadBlock
<1>20. ReadFrom(next, file, n + 1)
  <2>1. IsFile(file)
    BY FileOfIsFile DEF file
  <2>2. n + 1 \in 1 .. Len(file.chain)
    BY <1>2, <1>3
  <2> QED BY <1>4, <1>5, <2>1, <2>2, ReadOn
<1> HIDE DEF v, next
<1>21. \A h \in DOMAIN v.blocks : v.states[h] = w.states[h]
  BY <1>5, <1>9, <1>14, <1>18 DEF Gains, With
<1>22. v.mainTip = hash
  BY <1>17, <1>18 DEF Gains
<1>23. ReadBack(next, w, n + 1)
  BY <1>19, <1>20, <1>21, <1>22 DEF ReadBack, file, hash, chain
<1> QED BY <1>4, <1>23 DEF next, file

LEMMA FileLoadsBack ==
    ASSUME NEW w, Sound(w), w.mainTip # NoHash
    PROVE  LET read == LoadedBlocks(FileOf(w))
           IN  /\ read.ok /\ StateIn(read.w, read.w.mainTip) = StateIn(w, w.mainTip)
               /\ read.w.mainTip = w.mainTip
               /\ PoolOk(w) => Loaded(FileOf(w)).ok
<1> DEFINE file == FileOf(w)
           last == Len(file.chain)
           read == LoadedBlocks(file)
<1>1. IsFile(file) /\ last \in Nat
  BY FileOfIsFile DEF IsFile
<1>2. PICK f : /\ f = [n \in 0 .. last |-> NextLoaded(file, f, n)]
               /\ LoadedBlocks(file) = f[last]
  BY ONLY <1>1, LoadedBlocksSolves
<1>3. \A n \in 0 .. last : f[n] = NextLoaded(file, f, n)
  BY <1>2
<1> HIDE DEF last
<1> DEFINE Held == {n \in 0 .. last : ReadBack(f[n], w, n)}
<1>4. 0 \in Held
  <2>1. f[0] = NextLoaded(file, f, 0)
    BY <1>1, <1>3
  <2>2. f[0] = [ok |-> TRUE, w |-> EmptyNode]
    BY <2>1 DEF NextLoaded
  <2>3. ReadFrom(f[0], file, 0)
    BY <2>2, NothingIsRead
  <2>4. DOMAIN f[0].w.blocks = {} /\ f[0].w.mainTip = NoHash /\ f[0].ok
    BY <2>2 DEF EmptyNode
  <2>5. ReadBack(f[0], w, 0)
    BY <2>3, <2>4 DEF ReadBack
  <2> QED BY <1>1, <2>5
<1>5. ASSUME NEW n \in 0 .. last, n # last, n \in Held
      PROVE  n + 1 \in Held
  <2>1. n + 1 \in 0 .. last /\ n + 1 \in 1 .. last /\ n + 1 # 0 /\ (n + 1) - 1 = n /\ n \in Nat
    BY <1>1, <1>5
  <2>2. f[n + 1] = LoadNext(f[n], file.chain[n + 1], file.blocks[file.chain[n + 1]])
    BY <1>3, <2>1 DEF NextLoaded
  <2> DEFINE loaded == f[n]
  <2>3. /\ Sound(w) /\ w.mainTip # NoHash /\ n \in Nat /\ n + 1 \in 1 .. Len(FileOf(w).chain)
        /\ ReadBack(loaded, w, n)
    BY <1>5, <2>1 DEF last
  <2> HIDE DEF loaded
  <2>4. ReadBack(LoadNext(loaded, FileOf(w).chain[n + 1], FileOf(w).blocks[FileOf(w).chain[n + 1]]),
                 w, n + 1)
    BY ONLY <2>3, ReadsNextBack, Zenon
  <2> QED BY <2>1, <2>2, <2>4 DEF loaded
<1>6. ReadBack(read, w, last)
  <2>1. last \in Held
    <3> HIDE DEF Held
    <3>1. 0 .. last \subseteq Held
      BY <1>1, <1>4, <1>5, HoldsUpTo
    <3> QED BY <1>1, <3>1
  <2> QED BY <1>2, <2>1
<1>7. last # 0 /\ file.chain[last] = w.mainTip /\ file.chain = ChainTo(w.blocks, w.mainTip)
  <2>1. w.mainTip \in DOMAIN w.blocks /\ HeightsOf(w)[w.mainTip] \in Nat
    BY DEF Sound, TipOf, TypesOf, HeightsOf
  <2>2. IsChain(w.blocks, HeightsOf(w), ChainTo(w.blocks, w.mainTip), w.mainTip)
    BY <2>1, SoundIsTree, ChainShape
  <2>3. file.chain = ChainTo(w.blocks, w.mainTip)
    BY DEF FileOf
  <2> QED BY <2>1, <2>2, <2>3 DEF IsChain, last
<1> HIDE DEF read
<1>8. /\ read.ok /\ read.w.mainTip = w.mainTip /\ Sound(read.w)
      /\ \A h \in DOMAIN read.w.blocks : read.w.states[h] = w.states[h]
      /\ DOMAIN read.w.blocks = {file.chain[i] : i \in 1 .. last}
  BY <1>6, <1>7 DEF ReadBack, ReadFrom, file
<1>9. w.mainTip \in DOMAIN read.w.blocks
  BY <1>1, <1>7, <1>8
<1>10. StateIn(read.w, read.w.mainTip) = StateIn(w, w.mainTip)
  BY <1>8, <1>9 DEF StateIn
<1>11. ASSUME PoolOk(w) PROVE Loaded(file).ok
  <2>1. file.pending = w.pending
    BY DEF FileOf
  <2>2. PoolOn(file.pending, StateIn(read.w, read.w.mainTip)).ok
    BY <1>10, <1>11, <2>1 DEF PoolOk
  <2> QED BY <1>8, <2>2 DEF Loaded, WithPool, read
<1> QED BY <1>8, <1>10, <1>11 DEF read

LEMMA NoFileLoads == Loaded(NoFile).ok
<1>1. NoFile.chain = << >> /\ NoFile.pending = << >> /\ Len(NoFile.chain) = 0
  BY DEF NoFile
<1>2. LoadedBlocks(NoFile) = [ok |-> TRUE, w |-> EmptyNode]
  <2> DEFINE file == NoFile
             last == Len(file.chain)
  <2>0. Len(file.chain) \in Nat
    BY <1>1
  <2>1. PICK f : /\ f = [n \in 0 .. last |-> NextLoaded(file, f, n)]
                 /\ LoadedBlocks(file) = f[last]
    BY ONLY <2>0, LoadedBlocksSolves
  <2>2. last = 0
    BY <1>1
  <2> HIDE DEF last
  <2>3. f[0] = NextLoaded(file, f, 0)
    BY <2>1, <2>2
  <2> QED BY <2>1, <2>2, <2>3 DEF NextLoaded
<1>3. PoolOn(NoFile.pending, StateIn(EmptyNode, EmptyNode.mainTip)).ok
  BY <1>1, ApplyNothing DEF PoolOn
<1> QED BY <1>2, <1>3 DEF Loaded, WithPool

----------------------------------------------------------------------------
(* The second invariant of a node in public: the pool applies to the main  *)
(* tip and the file loads.                                                 *)

LoadsOk == ~private => PoolOk(Now) /\ Loaded(saved).ok

\* The file after a step is the one before or that of the node after it.
LEMMA FileOfNow ==
    ASSUME NEW v, Become(v)
    PROVE  FileOf(v) = FileOf(Now')
BY DEF Become, FileOf, Now

LEMMA LoadsAgain ==
    ASSUME LoadsOk, NodeInv', private' = private, ~private => PoolOk(Now'),
           saved' = saved \/ saved' = FileOf(Now')
    PROVE  LoadsOk'
<1>1. Sound(Now') /\ Now'.mainTip # NoHash
  BY DEF NodeInv, Now
<1>2. PoolOk(Now') => Loaded(FileOf(Now')).ok
  BY <1>1, FileLoadsBack
<1> QED BY <1>2 DEF LoadsOk

LEMMA HandledLoads ==
    ASSUME NodeInv, LoadsOk, NEW v, Handled(v)
    PROVE  LoadsOk'
<1> DEFINE w == Touched(Now)
<1>1. /\ w.states = states /\ w.mainTip = mainTip /\ w.pending = pending
  BY TouchedIsReady
<1>2. /\ Become(v) /\ private' = private /\ (PoolOk(w) => PoolOk(v))
      /\ saved' = FileOf(v) \/ saved' = saved
  BY DEF Handled, Grown
<1> HIDE DEF w
<1>3. PoolOk(Now) => PoolOk(w)
  BY <1>1, NowIs DEF PoolOk, StateIn
<1>4. PoolOk(v) => PoolOk(Now')
  BY <1>2 DEF PoolOk, StateIn, Become, Now
<1>5. ~private => PoolOk(Now')
  BY <1>2, <1>3, <1>4 DEF LoadsOk
<1> QED BY <1>2, <1>5, HandledInv, FileOfNow, LoadsAgain

LEMMA TransactionLoads ==
    ASSUME NodeInv, LoadsOk, NEW tx, HandleTransaction(tx)
    PROVE  LoadsOk'
<1> DEFINE v == [Touched(Now) EXCEPT !.pending = Append(@, tx)]
<1>1. Become(v) /\ saved' = FileOf(v) /\ private' = private
  BY DEF HandleTransaction, Settle, Save
<1>2. /\ states' = states /\ mainTip' = mainTip /\ pending' = Append(pending, tx)
  <2>1. LET w == Touched(Now)
        IN  /\ IsNode(w) /\ w.pending = pending /\ states' = w.states /\ mainTip' = w.mainTip
            /\ w.states = states /\ w.mainTip = mainTip /\ pending' = Append(w.pending, tx)
    <3> DEFINE w == Touched(Now)
    <3>1. /\ IsNode(w) /\ w.pending = pending /\ w.states = states /\ w.mainTip = mainTip
      BY TouchedIsReady DEF Ready, Sound
    <3> HIDE DEF w
    <3>2. v.states = w.states /\ v.mainTip = w.mainTip /\ v.pending = Append(w.pending, tx)
      BY <3>1 DEF IsNode, NowFields, w
    <3> QED BY <1>1, <3>1, <3>2 DEF Become, w
  <2> QED BY <2>1
<1> HIDE DEF v
<1>3. ASSUME ~private PROVE PoolOk(Now')
  <2> DEFINE state == StateAt(mainTip)
             applied == ApplyInOrder(pending, state.ledger, state.height + 1)
  <2>1. applied.ok /\ CanApply(tx, applied.ledger)
    <3>1. StateTip(Now) = mainTip
      BY <1>3, NowIs DEF StateTip
    <3> QED BY <3>1 DEF HandleTransaction, Appends, PendingOn, PoolOn
  <2>2. IsSeq(pending)
    BY NowIs DEF NodeInv, Sound, TypesOf
  <2>3. ApplyInOrder(Append(pending, tx), state.ledger, state.height + 1).ok
    <3> HIDE DEF state
    <3> QED BY <2>1, <2>2, ApplyOneMore
  <2>4. StateIn(Now', Now'.mainTip) = state
    BY <1>2 DEF StateIn, StateAt, Now
  <2> HIDE DEF state
  <2>5. Now'.pending = Append(pending, tx)
    BY <1>2 DEF Now
  <2> QED BY <2>3, <2>4, <2>5 DEF PoolOk, PoolOn
<1> QED BY <1>1, <1>3, TransactionInv, FileOfNow, LoadsAgain

\* The pool and the tip as they were.
LEMMA SameLoads ==
    ASSUME LoadsOk, NodeInv', UNCHANGED chainVars, private' = private,
           saved' = saved \/ saved' = FileOf(Now')
    PROVE  LoadsOk'
<1>1. PoolOk(Now) => PoolOk(Now')
  BY DEF chainVars, PoolOk, StateIn, Now
<1> QED BY <1>1, LoadsAgain DEF LoadsOk

LEMMA FoundLoads ==
    ASSUME NodeInv, LoadsOk, NEW hash, FindBlock(hash)
    PROVE  LoadsOk'
<1>1. saved' = saved /\ private' = private
  BY DEF FindBlock
<1>2. ASSUME NEW v, Found(v, hash)
      PROVE  LoadsOk'
  <2>1. ~private => PoolOk(v)
    BY <1>2, FoundIsSound
  <2>2. PoolOk(v) => PoolOk(Now')
    BY <1>2 DEF Found, PoolOk, StateIn, Become, Now
  <2> QED BY <1>1, <2>1, <2>2, FindBlockInv, LoadsAgain
<1>3. CASE Refused
  BY <1>1, <1>3, FindBlockInv, SameLoads DEF Refused
<1> QED BY <1>2, <1>3, FindBlockCases

LEMMA ResumeLoads ==
    ASSUME NodeInv, LoadsOk, ResumeLoop
    PROVE  LoadsOk'
<1> PICK v : Resumed(v)
  BY ResumeCases
<1>1. SameTree(v, Now) /\ (~private => v.pending = pending)
  BY ResumedIsSound
<1>2. Become(v) /\ (saved' = FileOf(v) \/ saved' = saved) /\ private' = private
  BY DEF Resumed, Proceed, PersistProgress, Save, ResumeLoop
<1>3. ASSUME ~private PROVE PoolOk(Now')
  <2>1. /\ Now'.pending = pending /\ Now'.states = states /\ Now'.mainTip = mainTip
    BY <1>1, <1>2, <1>3, NowIs DEF SameTree, Become, Now
  <2> QED BY <1>3, <2>1, NowIs DEF LoadsOk, PoolOk, StateIn
<1> QED BY <1>2, <1>3, ResumeInv, FileOfNow, LoadsAgain

LEMMA RestartLoads ==
    ASSUME NodeInv, LoadsOk, Crash \/ Shutdown
    PROVE  LoadsOk'
<1> PICK file : /\ RestartFrom(file) /\ saved' = file /\ IsFile(file)
                /\ ~private => Loaded(file).ok
  <2>1. CASE Crash
    BY <2>1 DEF Crash, NodeInv, LoadsOk
  <2>2. CASE Shutdown
    <3>1. RestartFrom(FileOf(Now)) /\ saved' = FileOf(Now)
      BY <2>2 DEF Shutdown, Save
    <3>2. Sound(Now) /\ Now.mainTip # NoHash
      BY NowIs DEF NodeInv
    <3>3. IsFile(FileOf(Now)) /\ (PoolOk(Now) => Loaded(FileOf(Now)).ok)
      BY <3>2, FileOfIsFile, FileLoadsBack
    <3> QED BY <3>1, <3>3 DEF LoadsOk
  <2> QED BY <2>1, <2>2
<1>1. PoolOk(Started(file))
  BY StartedIsSound
<1>2. Become(Started(file)) /\ private' = private
  BY DEF RestartFrom
<1>3. PoolOk(Now')
  <2> DEFINE s == Started(file)
  <2> HIDE DEF s
  <2>1. PoolOk(s) /\ Become(s)
    BY <1>1, <1>2 DEF s
  <2> QED BY <2>1 DEF PoolOk, StateIn, Become, Now
<1> QED BY <1>2, <1>3 DEF LoadsOk

LEMMA InitLoads == NodeInit => LoadsOk
<1> SUFFICES ASSUME NodeInit PROVE LoadsOk
  OBVIOUS
<1>1. Loaded(saved).ok
  BY NoFileLoads DEF NodeInit
<1>2. PoolOk(Now)
  <2>1. Now.pending = << >>
    BY NowIs DEF NodeInit
  <2> QED BY <2>1, ApplyNothing DEF PoolOk, PoolOn
<1> QED BY <1>1, <1>2 DEF LoadsOk

LEMMA NextLoads == NodeInv /\ LoadsOk /\ [NodeNext]_allVars => LoadsOk'
<1> SUFFICES ASSUME NodeInv, LoadsOk, [NodeNext]_allVars PROVE LoadsOk'
  OBVIOUS
<1>0. NodeInv'
  BY NextNodeInv
<1>1. CASE HandlerStep
  <2>1. ASSUME NEW hash \in DOMAIN PeerBlocks, HandleBlock(hash) PROVE LoadsOk'
    BY <2>1, BlockIsHandled, HandledLoads
  <2>2. ASSUME NEW chunk \in Chunks, NEW activeFastSync \in BOOLEAN,
               HandleChain(chunk, activeFastSync)
        PROVE  LoadsOk'
    BY <2>2, ChainIsHandled, HandledLoads
  <2>3. CASE HandleSyncComplete
    <3>1. UNCHANGED chainVars /\ private' = private /\ saved' = FileOf(Now)
      BY <2>3 DEF HandleSyncComplete, Save, vars, chainVars
    <3>2. FileOf(Now) = FileOf(Now')
      BY <3>1 DEF FileOf, Now, chainVars
    <3> QED BY <1>0, <3>1, <3>2, SameLoads
  <2>4. ASSUME NEW tx \in Transactions, HandleTransaction(tx) PROVE LoadsOk'
    BY <2>4, TransactionLoads
  <2> QED BY <1>1, <2>1, <2>2, <2>3, <2>4 DEF HandlerStep
<1>2. CASE AutomineStep
  <2>1. CASE StartAutomine \/ BeginSearch
    <3>1. Become(Touched(Now)) /\ private' = private /\ sent' = sent /\ saved' = saved
      BY <2>1 DEF StartAutomine, BeginSearch
    <3>2. UNCHANGED chainVars
      BY <3>1, TouchedIsReady DEF Become, chainVars
    <3> QED BY <1>0, <3>1, <3>2, SameLoads
  <2>2. CASE StopAutomine \/ SearchCancelled \/ EndAutomine \/ Select
    <3>1. UNCHANGED chainVars /\ private' = private /\ saved' = saved
      BY <2>2 DEF StopAutomine, SearchCancelled, EndAutomine, Select, vars, chainVars
    <3> QED BY <1>0, <3>1, SameLoads
  <2>3. ASSUME NEW hash \in Hashes, FindBlock(hash) PROVE LoadsOk'
    BY <2>3, FoundLoads
  <2>4. CASE ResumeLoop
    BY <2>4, ResumeLoads
  <2> QED BY <1>2, <2>1, <2>2, <2>3, <2>4 DEF AutomineStep
<1>3. CASE Crash \/ Shutdown
  BY <1>3, RestartLoads
<1>4. CASE UNCHANGED allVars
  BY <1>0, <1>4, SameLoads DEF allVars, vars, nodeVars, chainVars
<1> QED BY <1>1, <1>2, <1>3, <1>4 DEF NodeNext

\* The file of a node that mines in public is one the node starts from, at
\* every point of its handlers and of its mining thread: every block of it is
\* accepted again and the pool applies to the tip it was saved with.
THEOREM PublicFilesLoad == NodeSpec => []PublicFileLoads
<1>1. LoadsOk => PublicFileLoads
  BY DEF LoadsOk, PublicFileLoads, FileLoads
<1>2. NodeInv /\ LoadsOk /\ [NodeNext]_allVars => LoadsOk'
  BY NextLoads
<1> QED BY <1>1, <1>2, InitLoads, NodeInvHolds, PTL DEF NodeSpec

----------------------------------------------------------------------------
(* What a crash takes from a node in public: no transaction.               *)

NotRewards(txs) == {tx \in txs : ~IsReward(tx)}

LEMMA PaymentsAre ==
    ASSUME NEW tree, NEW height, IsTree(tree, height),
           \A h \in DOMAIN tree : IsSeq(tree[h].transactions),
           NEW tip \in DOMAIN tree \cup {NoHash}
    PROVE  Payments(tree, tip)
               = NotRewards(UNION {ToSet(tree[h].transactions) : h \in ToSet(ChainTo(tree, tip))})
<1>1. ToSet(BranchTransactions(tree, tip, NoHash))
        = UNION {ToSet(tree[h].transactions) : h \in ToSet(ChainTo(tree, tip))}
  <2>1. NoHash \in DOMAIN tree \cup {NoHash}
    OBVIOUS
  <2> QED BY <2>1, BranchOfChain
<1> QED BY <1>1 DEF Payments, NotRewards

\* More blocks change nothing on the chain to a tip.
LEMMA PaymentsStay ==
    ASSUME NEW tree, NEW height, IsTree(tree, height), NEW more, NEW heights,
           IsTree(more, heights), DOMAIN tree \subseteq DOMAIN more,
           \A h \in DOMAIN tree : more[h] = tree[h],
           \A h \in DOMAIN more : IsSeq(more[h].transactions),
           NEW tip \in DOMAIN tree \cup {NoHash}
    PROVE  Payments(more, tip) = Payments(tree, tip)
<1> DEFINE chain == ChainTo(tree, tip)
<1>1. ChainTo(more, tip) = chain
  BY ChainsStay
<1>2. ToSet(chain) \subseteq DOMAIN tree
  <2>1. chain \in Seq(DOMAIN tree)
    BY ChainsGrow
  <2> HIDE DEF chain
  <2> QED BY <2>1 DEF ToSet
<1>3. /\ Payments(tree, tip)
           = NotRewards(UNION {ToSet(tree[h].transactions) : h \in ToSet(chain)})
      /\ Payments(more, tip)
           = NotRewards(UNION {ToSet(more[h].transactions) : h \in ToSet(chain)})
  BY <1>1, PaymentsAre
<1> HIDE DEF chain
<1>4. UNION {ToSet(more[h].transactions) : h \in ToSet(chain)}
        = UNION {ToSet(tree[h].transactions) : h \in ToSet(chain)}
  BY <1>2
<1> QED BY <1>3, <1>4

\* The transactions of a file.
InFile(file) ==
    ToSet(file.pending)
    \cup Payments(file.blocks, IF file.chain = << >> THEN NoHash ELSE Last(file.chain))

\* Those of a node.
Has(w) == Payments(w.blocks, w.mainTip) \cup ToSet(w.pending)

\* A node's file has all it has, and ends with its tip.
LEMMA FileOfHasAll ==
    ASSUME NEW w, Sound(w), w.mainTip # NoHash
    PROVE  /\ InFile(FileOf(w)) = Has(w)
           /\ FileOf(w).chain # << >> /\ Last(FileOf(w).chain) = w.mainTip
<1> DEFINE tree   == w.blocks
           height == HeightsOf(w)
           tip    == w.mainTip
           chain  == ChainTo(tree, tip)
           part   == [h \in ToSet(chain) |-> tree[h]]
<1>1. /\ IsTree(tree, height) /\ tip \in DOMAIN tree
      /\ \A h \in DOMAIN tree : IsSeq(tree[h].transactions)
  BY SoundIsTree DEF Sound, TypesOf, TipOf
<1>2. /\ FileOf(w).chain = chain /\ FileOf(w).blocks = part /\ FileOf(w).pending = w.pending
  BY DEF FileOf
<1> HIDE DEF tree, height, tip
<1>3. IsChain(tree, height, chain, tip)
  BY <1>1, ChainShape
<1> HIDE DEF chain
<1>4. /\ chain \in Seq(DOMAIN tree) /\ Len(chain) = height[tip] + 1 /\ chain[Len(chain)] = tip
      /\ height[tip] \in Nat
      /\ \A i \in 1 .. Len(chain) :
            /\ height[chain[i]] = i - 1
            /\ tree[chain[i]].previous_hash = IF i = 1 THEN NoHash ELSE chain[i - 1]
  BY <1>1, <1>3 DEF IsChain, IsTree
<1>5. Len(chain) \in Nat /\ Len(chain) # 0 /\ DOMAIN chain = 1 .. Len(chain)
  BY <1>4
<1>6. chain # << >> /\ Last(chain) = tip
  BY <1>4, <1>5 DEF Last
<1>7. /\ ToSet(chain) \subseteq DOMAIN tree /\ tip \in ToSet(chain)
      /\ DOMAIN part = ToSet(chain) /\ \A h \in ToSet(chain) : part[h] = tree[h]
  BY <1>4, <1>5 DEF ToSet
<1> HIDE DEF part
<1>8. IsTree(part, height)
  <2>1. ASSUME NEW h \in DOMAIN part
        PROVE  /\ height[h] \in Nat
               /\ \/ part[h].previous_hash = NoHash /\ height[h] = 0
                  \/ /\ part[h].previous_hash \in DOMAIN part
                     /\ height[h] = height[part[h].previous_hash] + 1
    <3>1. PICK i \in 1 .. Len(chain) : h = chain[i]
      BY <1>5, <1>7 DEF ToSet
    <3>2. CASE i = 1
      BY <3>1, <3>2, <1>4, <1>7
    <3>3. CASE i # 1
      <4>1. i - 1 \in 1 .. Len(chain) /\ (i - 1) - 1 = i - 2 /\ i - 1 = (i - 2) + 1 /\ i - 1 \in Nat
        BY <1>5, <3>3
      <4>2. height[chain[i - 1]] = i - 2 /\ chain[i - 1] \in ToSet(chain)
        BY <1>4, <1>5, <4>1 DEF ToSet
      <4>3. part[h].previous_hash = chain[i - 1] /\ height[h] = i - 1
        BY <1>4, <1>7, <3>1, <3>3
      <4> QED BY <1>7, <4>1, <4>2, <4>3
    <3> QED BY <3>2, <3>3
  <2> QED BY <1>1, <1>7, <2>1 DEF IsTree
<1>9. Payments(part, tip) = Payments(tree, tip)
  BY <1>1, <1>7, <1>8, PaymentsStay
<1> QED BY <1>2, <1>6, <1>9 DEF InFile, Has, tree, tip

\* A block that is being searched for is made of transactions of the pool, as
\* long as it is to extend the main tip.
CandidateKept ==
    ~private /\ miner.at = "searching" /\ miner.tip = mainTip =>
        NotRewards(ToSet(candidate.transactions)) \subseteq ToSet(pending)

\* The file ends with the tip that a node which starts from it has.
FileEnds == saved.chain # << >> => LoadedBlocks(saved).w.mainTip = Last(saved.chain)

KeepsAll ==
    /\ FileEnds
    /\ CandidateKept
    /\ ~private /\ ~deferred => Has(Now) \subseteq InFile(saved)

LEMMA SavedEnds ==
    ASSUME NEW w, Sound(w), w.mainTip # NoHash, saved' = FileOf(w)
    PROVE  FileEnds'
<1>1. LoadedBlocks(FileOf(w)).w.mainTip = w.mainTip
  BY FileLoadsBack
<1>2. Last(FileOf(w).chain) = w.mainTip
  BY FileOfHasAll
<1> QED BY <1>1, <1>2 DEF FileEnds

\* A step that writes the file, leaves that to the end of a sync, or has no more
\* after it than before.
LEMMA KeepsAgain ==
    ASSUME KeepsAll, NodeInv', private' = private, CandidateKept',
           \/ saved' = FileOf(Now')
           \/ saved' = saved /\ deferred'
           \/ /\ saved' = saved /\ (deferred' <=> deferred)
              /\ ~private => Has(Now') \subseteq Has(Now)
    PROVE  KeepsAll'
<1>1. Sound(Now') /\ Now'.mainTip # NoHash
  BY DEF NodeInv, Now
<1>2. CASE saved' = FileOf(Now')
  <2>1. FileEnds'
    BY <1>1, <1>2, SavedEnds
  <2>2. InFile(saved') = Has(Now')
    BY <1>1, <1>2, FileOfHasAll
  <2> QED BY <2>1, <2>2 DEF KeepsAll
<1>3. CASE saved' = saved /\ deferred'
  BY <1>3 DEF KeepsAll, FileEnds
<1>4. CASE /\ saved' = saved /\ (deferred' <=> deferred)
           /\ ~private => Has(Now') \subseteq Has(Now)
  <2>1. FileEnds'
    BY <1>4 DEF KeepsAll, FileEnds
  <2>2. ~private /\ ~deferred => Has(Now') \subseteq InFile(saved)
    BY <1>4 DEF KeepsAll
  <2>3. (~private /\ ~deferred => Has(Now) \subseteq InFile(saved))'
    BY <1>4, <2>2
  <2> QED BY <2>1, <2>3 DEF KeepsAll
<1> QED BY <1>2, <1>3, <1>4

\* What a node has, by its tree and its pool.
LEMMA SameHas ==
    ASSUME NEW v, NEW w, v.blocks = w.blocks, v.mainTip = w.mainTip, v.pending = w.pending
    PROVE  Has(v) = Has(w)
BY DEF Has

LEMMA NowHas ==
    ASSUME NEW v, Become(v)
    PROVE  Has(Now') = Has(v)
<1>1. Now'.blocks = v.blocks /\ Now'.mainTip = v.mainTip /\ Now'.pending = v.pending
  BY DEF Become, Now
<1> QED BY <1>1, SameHas

LEMMA HandledKeeps ==
    ASSUME NodeInv, LoadsOk, KeepsAll, NEW v, Handled(v)
    PROVE  KeepsAll'
<1> DEFINE w == Touched(Now)
<1>1. /\ w.blocks = blocks /\ w.states = states /\ w.mainTip = mainTip /\ w.pending = pending
      /\ mainTip \in Stored /\ NoHash \notin Stored
      /\ \A h \in Stored : Height(h) \in Nat
  BY TouchedIsReady, StoredIsNow
<1>2. /\ Grown(v, w, FALSE) /\ Become(v) /\ private' = private /\ candidate' = candidate
      /\ miner' = [miner EXCEPT !.cancel = v.cancel]
  BY DEF Handled
<1> HIDE DEF w
<1>3. miner'.at = miner.at /\ miner'.tip = miner.tip
  BY <1>2 DEF NodeInv, MinerOk
<1>4. /\ PoolOk(w) => PoolStays(v, w)
      /\ TipRisesTo(v, w) /\ Extends(v, w) /\ Sound(v)
  BY <1>2 DEF Grown
<1>5. CandidateKept'
  <2> SUFFICES ASSUME ~private, miner.at = "searching", miner.tip = v.mainTip
               PROVE  NotRewards(ToSet(candidate.transactions)) \subseteq ToSet(v.pending)
    BY <1>2, <1>3 DEF CandidateKept, Become
  <2>1. PoolOk(w)
    BY <1>1, NowIs DEF LoadsOk, PoolOk, StateIn
  <2>2. miner.tip \in Stored /\ (miner.tip = mainTip \/ Height(miner.tip) < Height(mainTip))
    BY DEF NodeInv, MinerOk, TipIsKnown
  <2>3. v.mainTip = mainTip
    <3>1. v.mainTip = mainTip \/ v.states[v.mainTip].height > Height(mainTip)
      BY <1>1, <1>4 DEF TipRisesTo, Height
    <3>2. v.states[miner.tip].height = Height(miner.tip)
      BY <1>1, <1>4, <2>2 DEF Extends, Stored, Height
    <3>3. Height(miner.tip) \in Nat /\ Height(mainTip) \in Nat
      BY <1>1, <2>2
    <3> QED BY <2>2, <3>1, <3>2, <3>3
  <2>4. ToSet(pending) \subseteq ToSet(v.pending)
    BY <1>1, <1>4, <2>1, <2>3 DEF PoolStays
  <2>5. NotRewards(ToSet(candidate.transactions)) \subseteq ToSet(pending)
    BY <2>3 DEF KeepsAll, CandidateKept
  <2> QED BY <2>4, <2>5
<1>6. \/ saved' = FileOf(Now')
      \/ saved' = saved /\ deferred'
      \/ /\ saved' = saved /\ (deferred' <=> deferred)
         /\ blocks' = blocks /\ mainTip' = mainTip /\ pending' = pending
  BY <1>2, FileOfNow DEF Handled
<1>7. blocks' = blocks /\ mainTip' = mainTip /\ pending' = pending => Has(Now') = Has(Now)
  BY SameHas DEF Now
<1> QED BY <1>2, <1>5, <1>6, <1>7, HandledInv, KeepsAgain

LEMMA TransactionKeeps ==
    ASSUME NodeInv, KeepsAll, NEW tx, HandleTransaction(tx)
    PROVE  KeepsAll'
<1> DEFINE w == Touched(Now)
           v == [w EXCEPT !.pending = Append(w.pending, tx)]
<1>1. /\ IsNode(w) /\ w.mainTip = mainTip /\ w.pending = pending /\ w.cancel = miner.cancel
      /\ IsSeq(pending)
  BY TouchedIsReady DEF Ready, Sound, TypesOf
<1>2. Settle(v, TRUE) /\ candidate' = candidate /\ private' = private
  BY DEF HandleTransaction
<1> HIDE DEF w
<1>3. v.mainTip = mainTip /\ v.pending = Append(pending, tx)
  BY <1>1 DEF IsNode, NowFields
<1> HIDE DEF v
<1>4. /\ Become(v) /\ saved' = FileOf(v) /\ mainTip' = mainTip
      /\ pending' = Append(pending, tx) /\ miner' = [miner EXCEPT !.cancel = v.cancel]
  BY <1>2, <1>3 DEF Settle, Save, Become
<1>5. ToSet(pending) \subseteq ToSet(pending')
  BY <1>1, <1>4, PushedIsSeq
<1>6. miner'.at = miner.at /\ miner'.tip = miner.tip
  BY <1>4 DEF NodeInv, MinerOk
<1>7. CandidateKept'
  BY <1>2, <1>4, <1>5, <1>6 DEF KeepsAll, CandidateKept
<1> QED BY <1>2, <1>4, <1>7, TransactionInv, FileOfNow, KeepsAgain

\* The chain and the pool as they were.
LEMMA SameKeeps ==
    ASSUME KeepsAll, NodeInv', UNCHANGED chainVars, private' = private, CandidateKept',
           saved' = FileOf(Now') \/ (saved' = saved /\ (deferred' <=> deferred))
    PROVE  KeepsAll'
<1>1. Has(Now') = Has(Now)
  BY SameHas DEF chainVars, Now
<1> QED BY <1>1, KeepsAgain

LEMMA OneBefore ==
    ASSUME NEW s, IsSeq(s), NEW x
    PROVE  ToSet(<<x>> \o s) = {x} \cup ToSet(s)
<1>1. <<x>> \in Seq({x}) /\ Len(<<x>>) = 1 /\ <<x>>[1] = x
  OBVIOUS
<1> DEFINE one == <<x>>
<1>2. DOMAIN one = {1} /\ one[1] = x
  OBVIOUS
<1> HIDE DEF one
<1>3. ToSet(one) = {x}
  BY <1>2 DEF ToSet
<1>4. IsSeq(one)
  BY <1>1 DEF IsSeq, one
<1>5. ToSet(one \o s) = ToSet(one) \cup ToSet(s)
  BY <1>4, JoinSize
<1> QED BY <1>3, <1>5 DEF one

\* The transactions a block is made of are selected from the pool.
LEMMA SelectKeeps ==
    ASSUME NodeInv, LoadsOk, KeepsAll, Select
    PROVE  KeepsAll'
<1>1. UNCHANGED chainVars /\ private' = private /\ saved' = saved /\ deferred' = deferred
  BY DEF Select
<1>2. CandidateKept'
  <2> SUFFICES ASSUME ~private
               PROVE  NotRewards(ToSet(candidate'.transactions)) \subseteq ToSet(pending)
    BY <1>1 DEF CandidateKept, chainVars
  <2> DEFINE state == StateAt(miner.tip)
             selected == SelectedTransactions(pending, state)
             reward == RewardTransaction(Wallet, CollectedFees(selected, state))
  <2>1. candidate'.transactions = <<reward>> \o selected
    <3>1. candidate' = BlockOf(Wallet, miner.tip, state, selected)
      BY DEF Select, MinedBlock
    <3> QED BY <3>1 DEF BlockOf
  <2>2. IsSeq(pending) /\ HaveFees(pending)
    <3>1. IsSeq(pending) /\ PoolOk(Now)
      BY NowIs DEF NodeInv, Sound, TypesOf, LoadsOk
    <3> DEFINE main == StateIn(Now, mainTip)
    <3>2. ApplyInOrder(pending, main.ledger, main.height + 1).ok
      BY <3>1, NowIs DEF PoolOk, PoolOn
    <3> HIDE DEF main
    <3> QED BY <3>1, <3>2, AppliedHaveFees
  <2>3. IsReward(reward)
    BY DEF RewardTransaction, IsReward
  <2> HIDE DEF state, reward
  <2>4. IsSeq(selected) /\ ToSet(selected) \subseteq ToSet(pending)
    BY <2>2, SelectedParts
  <2> HIDE DEF selected
  <2>5. ToSet(<<reward>> \o selected) = {reward} \cup ToSet(selected)
    BY <2>4, OneBefore
  <2> QED BY <2>1, <2>3, <2>4, <2>5 DEF NotRewards
<1> QED BY <1>1, <1>2, SelectInv, SameKeeps

\* The block that is found takes its transactions from the pool, and the pool
\* what it did not hold before from the chain.
LEMMA FoundKeeps ==
    ASSUME NodeInv, KeepsAll, NEW hash, FindBlock(hash), NEW v, Found(v, hash)
    PROVE  KeepsAll'
<1>1. /\ saved' = saved /\ deferred' = deferred /\ private' = private /\ Become(v)
      /\ miner'.at = "found"
  BY DEF Found, FindBlock, NodeInv, MinerOk
<1>2. CandidateKept'
  BY <1>1 DEF CandidateKept
<1>3. ASSUME ~private PROVE Has(v) \subseteq Has(Now)
  <2>1. /\ Sound(v) /\ Extends(v, Now) /\ v.blocks[hash] = candidate
        /\ DOMAIN v.blocks = Stored \cup {hash}
        /\ v.pending = Reconciled(v.blocks, StateIn(v, v.mainTip), mainTip, v.mainTip, pending)
    BY <1>3, FoundIsSound
  <2>2. Sound(Now) /\ IsSeq(pending) /\ mainTip \in DOMAIN blocks
    BY NowIs, StoredIsNow DEF NodeInv, Sound, TypesOf, Stored
  <2> DEFINE tree    == blocks
             height  == HeightsOf(Now)
             more    == v.blocks
             heights == HeightsOf(v)
             head    == v.mainTip
             canonical == StateIn(v, head)
             paid(t, tip) == UNION {ToSet(t[h].transactions) : h \in ToSet(ChainTo(t, tip))}
  <2>3. /\ IsTree(tree, height) /\ IsTree(more, heights)
        /\ DOMAIN tree \subseteq DOMAIN more /\ \A h \in DOMAIN tree : more[h] = tree[h]
        /\ \A h \in DOMAIN tree : IsSeq(tree[h].transactions)
        /\ \A h \in DOMAIN more : IsSeq(more[h].transactions)
        /\ mainTip \in DOMAIN tree \cup {NoHash} /\ mainTip \in DOMAIN more \cup {NoHash}
        /\ head \in DOMAIN more \cup {NoHash}
    BY <2>1, <2>2, NowIs, SoundIsTree DEF Sound, TypesOf, TipOf, Extends
  <2>4. Payments(more, mainTip) = Payments(tree, mainTip)
    <3> HIDE DEF tree, height, more, heights
    <3> QED BY <2>3, PaymentsStay
  <2>5. ToSet(v.pending) \subseteq ToSet(pending) \cup Payments(more, mainTip)
    <3>1. v.pending = Reconciled(more, canonical, mainTip, head, pending)
      BY <2>1
    <3> HIDE DEF more, heights, canonical, head, tree
    <3>2. ToSet(Reconciled(more, canonical, mainTip, head, pending))
            \subseteq ToSet(pending)
                      \cup {tx \in ToSet(BranchTransactions(more, mainTip, NoHash)) : ~IsReward(tx)}
      BY <2>2, <2>3, ReconciledComesFrom
    <3> QED BY <3>1, <3>2 DEF Payments
  <2>6. Payments(more, head) \subseteq Payments(tree, mainTip) \cup ToSet(pending)
    <3>1. CASE head = mainTip
      BY <2>4, <3>1
    <3>2. CASE head # mainTip
      <4>1. head = hash /\ miner.tip = mainTip
            /\ ChainTo(more, head) = Append(ChainTo(tree, mainTip), hash)
        BY <1>3, <3>2, FoundChain
      <4>2. IsSeq(ChainTo(tree, mainTip)) /\ ToSet(ChainTo(tree, mainTip)) \subseteq DOMAIN tree
        <5> DEFINE chain == ChainTo(tree, mainTip)
        <5> HIDE DEF tree, height
        <5>1. chain \in Seq(DOMAIN tree)
          BY <2>3, ChainsGrow
        <5> HIDE DEF chain
        <5> QED BY <5>1 DEF IsSeq, ToSet, chain
      <4>3. ToSet(ChainTo(more, head)) = ToSet(ChainTo(tree, mainTip)) \cup {hash}
        BY <4>1, <4>2, PushedIsSeq
      <4>4. more[hash] = candidate
        BY <2>1
      <4>5. NotRewards(ToSet(candidate.transactions)) \subseteq ToSet(pending)
        BY <1>3, <4>1 DEF KeepsAll, CandidateKept, FindBlock
      <4> HIDE DEF tree, height, more, heights, head
      <4>6. /\ Payments(more, head) = NotRewards(paid(more, head))
            /\ Payments(tree, mainTip) = NotRewards(paid(tree, mainTip))
        BY <2>3, PaymentsAre
      <4>7. paid(more, head) = paid(tree, mainTip) \cup ToSet(candidate.transactions)
        BY <2>3, <4>2, <4>3, <4>4
      <4> HIDE DEF paid
      <4>8. NotRewards(paid(more, head))
              = NotRewards(paid(tree, mainTip)) \cup NotRewards(ToSet(candidate.transactions))
        BY <4>7 DEF NotRewards
      <4> QED BY <4>5, <4>6, <4>8
    <3> QED BY <3>1, <3>2
  <2> HIDE DEF paid
  <2>7. Has(v) = Payments(more, head) \cup ToSet(v.pending)
        /\ Has(Now) = Payments(tree, mainTip) \cup ToSet(pending)
    BY NowIs DEF Has
  <2> HIDE DEF more, tree, head
  <2> QED BY <2>4, <2>5, <2>6, <2>7
<1>4. Has(Now') = Has(v)
  BY <1>1, NowHas
<1> QED BY <1>1, <1>2, <1>3, <1>4, FindBlockInv, KeepsAgain

LEMMA FindBlockKeeps ==
    ASSUME NodeInv, KeepsAll, NEW hash, FindBlock(hash)
    PROVE  KeepsAll'
<1>1. ASSUME NEW v, Found(v, hash) PROVE KeepsAll'
  BY <1>1, FoundKeeps
<1>2. CASE Refused
  <2>1. UNCHANGED chainVars /\ private' = private /\ saved' = saved /\ deferred' = deferred
        /\ miner'.at = "off"
    BY <1>2 DEF Refused, FindBlock, OffMiner
  <2>2. CandidateKept'
    BY <2>1 DEF CandidateKept
  <2> QED BY <2>1, <2>2, FindBlockInv, SameKeeps
<1> QED BY <1>1, <1>2, FindBlockCases

LEMMA ResumeKeeps ==
    ASSUME NodeInv, KeepsAll, ResumeLoop
    PROVE  KeepsAll'
<1> PICK v : Resumed(v)
  BY ResumeCases
<1>1. SameTree(v, Now) /\ (~private => v.pending = pending)
  BY ResumedIsSound
<1>2. /\ Become(v) /\ (saved' = FileOf(v) \/ saved' = saved)
      /\ private' = private /\ deferred' = deferred /\ miner'.at = "loop"
  BY DEF Resumed, Proceed, PersistProgress, Save, ResumeLoop, NodeInv, MinerOk
<1>3. CandidateKept'
  BY <1>2 DEF CandidateKept
<1>4. ~private => Has(Now') = Has(Now)
  <2>1. ASSUME ~private PROVE Has(v) = Has(Now)
    BY <1>1, <2>1, NowIs, SameHas DEF SameTree
  <2> QED BY <1>2, <2>1, NowHas
<1> QED BY <1>2, <1>3, <1>4, ResumeInv, FileOfNow, KeepsAgain

\* A node that starts from its file has nothing that is not in it.
LEMMA FreshHasNothing == Has(FreshNode) = {}
<1> DEFINE w == FreshNode
           tree == w.blocks
           height == HeightsOf(w)
<1>1. /\ Sound(w) /\ w.mainTip = GenesisHash /\ w.pending = << >> /\ DOMAIN tree = {GenesisHash}
      /\ w.mainTip # NoHash
  BY FreshIsSound, GenesisHashAssumption, NoHashAssumption
<1> HIDE DEF w
<1>2. tree[GenesisHash].transactions = << >>
  <2>1. /\ w.states[GenesisHash].height \in Nat
        /\ IF tree[GenesisHash].previous_hash = NoHash
           THEN w.states[GenesisHash].height = 0
           ELSE /\ tree[GenesisHash].previous_hash = GenesisHash
                /\ w.states[GenesisHash].height
                     = w.states[tree[GenesisHash].previous_hash].height + 1
    BY <1>1 DEF Sound, TypesOf, TreeOf
  <2>2. tree[GenesisHash].previous_hash = NoHash
    BY <2>1
  <2> QED BY <1>1, <2>2 DEF Sound, ReplayOf, IsGenesis
<1>3. ToSet(ChainTo(tree, GenesisHash)) \subseteq {GenesisHash}
  BY <1>1, ChainIsStored
<1>4. /\ IsTree(tree, height) /\ GenesisHash \in DOMAIN tree
      /\ \A h \in DOMAIN tree : IsSeq(tree[h].transactions)
  BY <1>1, SoundIsTree DEF Sound, TypesOf
<1>5. Has(w) = Payments(tree, GenesisHash) \cup ToSet(<< >>)
  BY <1>1 DEF Has
<1> HIDE DEF tree, height
<1>6. Payments(tree, GenesisHash)
        = NotRewards(UNION {ToSet(tree[h].transactions) : h \in ToSet(ChainTo(tree, GenesisHash))})
  BY <1>4, PaymentsAre
<1>7. ToSet(<< >>) = {}
  BY DEF ToSet
<1>8. UNION {ToSet(tree[h].transactions) : h \in ToSet(ChainTo(tree, GenesisHash))} = {}
  BY <1>2, <1>3, <1>7
<1> QED BY <1>5, <1>6, <1>7, <1>8 DEF NotRewards, w

LEMMA StartedHas ==
    ASSUME NEW file, IsFile(file),
           file.chain # << >> => LoadedBlocks(file).w.mainTip = Last(file.chain)
    PROVE  Has(Started(file)) \subseteq InFile(file)
<1> DEFINE s == Started(file)
<1>1. Sound(s) /\ s.mainTip # NoHash /\ (s = FreshNode \/ RestoredFrom(s, file))
  BY StartedIsSound
<1> HIDE DEF s
<1>2. CASE s = FreshNode
  BY <1>2, FreshHasNothing DEF s
<1>3. CASE RestoredFrom(s, file)
  <2>1. /\ DOMAIN s.blocks = DOMAIN file.blocks
        /\ \A h \in DOMAIN s.blocks : s.blocks[h] = file.blocks[h]
        /\ s.mainTip = LoadedBlocks(file).w.mainTip /\ s.pending = file.pending
        /\ DOMAIN s.blocks = ToSet(file.chain)
    BY <1>3 DEF RestoredFrom, IsFile
  <2>2. s.mainTip \in DOMAIN s.blocks
    BY <1>1 DEF Sound, TipOf
  <2>3. file.chain # << >>
    <3>1. ToSet(<< >>) = {}
      BY DEF ToSet
    <3> QED BY <2>1, <2>2, <3>1
  <2>4. s.mainTip = Last(file.chain)
    BY <2>1, <2>3
  <2> DEFINE tree   == s.blocks
             height == HeightsOf(s)
             more   == file.blocks
             tip    == s.mainTip
  <2>5. /\ IsTree(tree, height) /\ DOMAIN more = DOMAIN tree
        /\ \A h \in DOMAIN tree : more[h] = tree[h] /\ IsSeq(tree[h].transactions)
        /\ tip \in DOMAIN tree
    BY <1>1, <2>1, <2>2, SoundIsTree DEF Sound, TypesOf
  <2>6. InFile(file) = ToSet(s.pending) \cup Payments(more, tip)
        /\ Has(s) = ToSet(s.pending) \cup Payments(tree, tip)
    BY <2>1, <2>3, <2>4 DEF InFile, Has
  <2> HIDE DEF tree, height, more, tip
  <2>7. IsTree(more, height)
    BY <2>5 DEF IsTree
  <2>8. Payments(more, tip) = Payments(tree, tip)
    BY <2>5, <2>7, PaymentsStay
  <2> QED BY <2>6, <2>8 DEF s
<1> QED BY <1>1, <1>2, <1>3 DEF s

LEMMA RestartKeeps ==
    ASSUME NodeInv, KeepsAll, Crash \/ Shutdown
    PROVE  KeepsAll'
<1> PICK file : /\ RestartFrom(file) /\ saved' = file /\ IsFile(file)
                /\ file.chain # << >> => LoadedBlocks(file).w.mainTip = Last(file.chain)
  <2>1. CASE Crash
    BY <2>1 DEF Crash, NodeInv, KeepsAll, FileEnds
  <2>2. CASE Shutdown
    <3>1. RestartFrom(FileOf(Now)) /\ saved' = FileOf(Now)
      BY <2>2 DEF Shutdown, Save
    <3>2. Sound(Now) /\ Now.mainTip # NoHash
      BY NowIs DEF NodeInv
    <3>3. IsFile(FileOf(Now)) /\ FileEnds'
      BY <3>1, <3>2, FileOfIsFile, SavedEnds
    <3> QED BY <3>1, <3>3 DEF FileEnds
  <2> QED BY <2>1, <2>2
<1>1. Has(Started(file)) \subseteq InFile(file)
  BY StartedHas
<1> DEFINE s == Started(file)
<1>2. Become(s) /\ miner' = OffMiner
  BY DEF RestartFrom
<1> HIDE DEF s
<1>3. Has(Now') = Has(s)
  BY <1>2, NowHas
<1>4. CandidateKept'
  BY <1>2 DEF CandidateKept, OffMiner
<1>5. Has(Now') \subseteq InFile(saved')
  BY <1>1, <1>3 DEF s
<1> QED BY <1>4, <1>5 DEF KeepsAll, FileEnds

LEMMA InitKeeps == NodeInit => KeepsAll
<1> SUFFICES ASSUME NodeInit PROVE KeepsAll
  OBVIOUS
<1>1. saved.chain = << >> /\ miner.at = "off"
  BY DEF NodeInit, NoFile, OffMiner
<1>2. Has(Now) = Has(FreshNode)
  BY FreshIsSound, NowIs, SameHas DEF NodeInit
<1> QED BY <1>1, <1>2, FreshHasNothing DEF KeepsAll, FileEnds, CandidateKept

LEMMA NextKeeps == NodeInv /\ LoadsOk /\ KeepsAll /\ [NodeNext]_allVars => KeepsAll'
<1> SUFFICES ASSUME NodeInv, LoadsOk, KeepsAll, [NodeNext]_allVars PROVE KeepsAll'
  OBVIOUS
<1>0. NodeInv'
  BY NextNodeInv
<1>1. CASE HandlerStep
  <2>1. ASSUME NEW hash \in DOMAIN PeerBlocks, HandleBlock(hash) PROVE KeepsAll'
    BY <2>1, BlockIsHandled, HandledKeeps
  <2>2. ASSUME NEW chunk \in Chunks, NEW activeFastSync \in BOOLEAN,
               HandleChain(chunk, activeFastSync)
        PROVE  KeepsAll'
    BY <2>2, ChainIsHandled, HandledKeeps
  <2>3. CASE HandleSyncComplete
    <3>1. UNCHANGED chainVars /\ private' = private /\ saved' = FileOf(Now)
          /\ candidate' = candidate /\ miner' = miner
      BY <2>3 DEF HandleSyncComplete, Save, vars, chainVars
    <3>2. FileOf(Now) = FileOf(Now')
      BY <3>1 DEF FileOf, Now, chainVars
    <3>3. CandidateKept'
      BY <3>1 DEF KeepsAll, CandidateKept, chainVars
    <3> QED BY <1>0, <3>1, <3>2, <3>3, SameKeeps
  <2>4. ASSUME NEW tx \in Transactions, HandleTransaction(tx) PROVE KeepsAll'
    BY <2>4, TransactionKeeps
  <2> QED BY <1>1, <2>1, <2>2, <2>3, <2>4 DEF HandlerStep
<1>2. CASE AutomineStep
  <2>1. CASE StartAutomine \/ BeginSearch
    <3>1. /\ Become(Touched(Now)) /\ private' = private /\ saved' = saved /\ deferred' = deferred
          /\ miner'.at # "searching"
      BY <2>1 DEF StartAutomine, BeginSearch, OffMiner, NodeInv, MinerOk
    <3>2. UNCHANGED chainVars
      BY <3>1, TouchedIsReady DEF Become, chainVars
    <3>3. CandidateKept'
      BY <3>1 DEF CandidateKept
    <3> QED BY <1>0, <3>1, <3>2, <3>3, SameKeeps
  <2>2. CASE StopAutomine \/ SearchCancelled \/ EndAutomine
    <3>1. UNCHANGED chainVars /\ private' = private /\ saved' = saved /\ deferred' = deferred
      BY <2>2 DEF StopAutomine, SearchCancelled, EndAutomine, vars, chainVars
    <3>2. \/ miner'.at # "searching"
          \/ miner'.at = miner.at /\ miner'.tip = miner.tip /\ candidate' = candidate
      <4>1. CASE StopAutomine
        BY <4>1 DEF StopAutomine, NodeInv, MinerOk, vars
      <4>2. CASE SearchCancelled \/ EndAutomine
        BY <4>2 DEF SearchCancelled, EndAutomine, OffMiner
      <4> QED BY <2>2, <4>1, <4>2
    <3>3. CandidateKept'
      BY <3>1, <3>2 DEF KeepsAll, CandidateKept, chainVars
    <3> QED BY <1>0, <3>1, <3>3, SameKeeps
  <2>3. CASE Select
    BY <2>3, SelectKeeps
  <2>4. ASSUME NEW hash \in Hashes, FindBlock(hash) PROVE KeepsAll'
    BY <2>4, FindBlockKeeps
  <2>5. CASE ResumeLoop
    BY <2>5, ResumeKeeps
  <2> QED BY <1>2, <2>1, <2>2, <2>3, <2>4, <2>5 DEF AutomineStep
<1>3. CASE Crash \/ Shutdown
  BY <1>3, RestartKeeps
<1>4. CASE UNCHANGED allVars
  <2>1. /\ UNCHANGED chainVars /\ private' = private /\ saved' = saved /\ deferred' = deferred
        /\ miner' = miner /\ candidate' = candidate
    BY <1>4 DEF allVars, vars, nodeVars, chainVars
  <2>2. CandidateKept'
    BY <2>1 DEF KeepsAll, CandidateKept, chainVars
  <2> QED BY <1>0, <2>1, <2>2, SameKeeps
<1> QED BY <1>1, <1>2, <1>3, <1>4 DEF NodeNext

\* The file of a node in public, outside a sync, holds every payment of the
\* main chain and of the pool: a block that _save_mined_block_progress has not
\* written yet took its payments from a pool that was written with them.
THEOREM CrashesLoseNoTransaction == NodeSpec => []CrashLosesNoTransaction
<1>1. KeepsAll => CrashLosesNoTransaction
  BY NowIs DEF KeepsAll, Has, InFile, CrashLosesNoTransaction
<1>2. NodeInv /\ LoadsOk /\ [NodeNext]_allVars => LoadsOk'
  BY NextLoads
<1>3. NodeInv /\ LoadsOk /\ KeepsAll /\ [NodeNext]_allVars => KeepsAll'
  BY NextKeeps
<1> QED BY <1>1, <1>2, <1>3, InitLoads, InitKeeps, NodeInvHolds, PTL DEF NodeSpec

----------------------------------------------------------------------------
(* What no step takes from a node in public: a payment that still applies. *)

\* Other nodes send what users may send.
PeersSendStock == \A tx \in FromPeers : FromStock(tx)

\* A node, or a file, that holds transactions of the stock and no reward in the pool.
HoldsStock(w) ==
    /\ \A tx \in ToSet(w.pending) : FromStock(tx) /\ ~IsReward(tx)
    /\ \A h \in DOMAIN w.blocks : AllFromStock(w.blocks[h].transactions)

NodeStock ==
    ~private => /\ HoldsStock(Now) /\ HoldsStock(saved)
                /\ miner.at = "searching" => AllFromStock(candidate.transactions)

LEMMA ComesFromStock ==
    ASSUME PeersSendStock, NEW w, HoldsStock(w), NEW v, Comes(v, w)
    PROVE  HoldsStock(v)
<1>1. \A tx \in TxsOf(w) \cup FromPeers : FromStock(tx)
  BY DEF TxsOf, HoldsStock, AllFromStock, PeersSendStock
<1>2. \A tx \in TxsOf(v) : FromStock(tx)
  BY <1>1 DEF Comes
<1>3. /\ ToSet(v.pending) \subseteq TxsOf(v)
      /\ \A h \in DOMAIN v.blocks : ToSet(v.blocks[h].transactions) \subseteq TxsOf(v)
  BY DEF TxsOf
<1> QED BY <1>2, <1>3 DEF HoldsStock, AllFromStock, Comes

LEMMA FileOfStock ==
    ASSUME NEW w, Sound(w), HoldsStock(w)
    PROVE  HoldsStock(FileOf(w))
<1> DEFINE chain == ChainTo(w.blocks, w.mainTip)
<1>1. ToSet(chain) \subseteq DOMAIN w.blocks
  <2>1. w.mainTip \in DOMAIN w.blocks \cup {NoHash}
    BY DEF Sound, TipOf
  <2> QED BY <2>1, SoundIsTree, AncestorsOfAncestors
<1>2. /\ FileOf(w).pending = w.pending
      /\ FileOf(w).blocks = [h \in ToSet(chain) |-> w.blocks[h]]
  BY DEF FileOf
<1> HIDE DEF chain
<1>3. DOMAIN FileOf(w).blocks = ToSet(chain)
      /\ \A h \in ToSet(chain) : FileOf(w).blocks[h] = w.blocks[h]
  BY <1>2
<1> QED BY <1>1, <1>2, <1>3 DEF HoldsStock

\* Nothing is authorized after any of its blocks.
LEMMA NodeLedgers ==
    ASSUME SendersAreIndependent, NEW w, Sound(w), HoldsStock(w),
           NEW g \in DOMAIN w.blocks \cup {NoHash}
    PROVE  StockLedger(StateIn(w, g).ledger)
<1> DEFINE tree == w.blocks
           Bad  == {h \in DOMAIN tree : ~StockLedger(StateIn(w, h).ledger)}
<1>1. StockLedger(StateIn(w, NoHash).ledger)
  <2>1. /\ StateIn(w, NoHash).ledger = EmptyLedger
        /\ EmptyLedger.authorizations = << >>
    BY DEF StateIn, FreshState, EmptyLedger
  <2> QED BY <2>1, EmptyIsCoinLedger DEF StockLedger
<1>2. Bad = {}
  <2>1. SUFFICES ASSUME Bad # {} PROVE FALSE
    OBVIOUS
  <2>2. PICK h \in Bad : tree[h].previous_hash \in (DOMAIN tree \ Bad) \cup {NoHash}
    <3>1. Bad \in SUBSET DOMAIN tree /\ IsTree(tree, HeightsOf(w))
      BY SoundIsTree
    <3> HIDE DEF Bad, tree
    <3> QED BY <2>1, <3>1, LowestOf
  <2> DEFINE block  == tree[h]
             txs    == block.transactions
             before == StateIn(w, block.previous_hash).ledger
             id     == block.block_id
  <2>3. /\ h \in DOMAIN tree /\ StockLedger(before) /\ ~StockLedger(StateIn(w, h).ledger)
    BY <1>1, <2>2
  <2>4. id \in Nat /\ h # NoHash /\ IsSeq(txs)
    BY <2>3, NoHashAssumption DEF Sound, TypesOf
  <2>5. IsValidChild(block, before) /\ w.states[h] = ChildState(block, before)
    BY <2>3 DEF Sound, ReplayOf
  <2>6. /\ ApplyInOrder(txs, before, id).ok
        /\ StateIn(w, h).ledger = ApplyInOrder(txs, before, id).ledger
    BY <2>4, <2>5 DEF IsValidChild, ClaimsItsFees, AppliedBlock, ChildState, StateIn
  <2>7. Len(txs) \in Nat /\ \A i \in 1 .. Len(txs) : FromStock(txs[i])
    <3>1. Len(txs) \in Nat /\ DOMAIN txs = 1 .. Len(txs)
      BY <2>4, SeqLength
    <3>2. \A tx \in ToSet(txs) : FromStock(tx)
      BY <2>3 DEF AllFromStock, HoldsStock
    <3> QED BY <3>1, <3>2 DEF ToSet
  <2> HIDE DEF txs, before, id
  <2>8. StockLedger(StateIn(w, h).ledger)
    BY <2>3, <2>4, <2>6, <2>7, ApplyInOrderStock
  <2> QED BY <2>3, <2>8
<1> QED BY <1>1, <1>2

----------------------------------------------------------------------------
(* The steps keep it.                                                      *)

LEMMA HoldsTheSame ==
    ASSUME NEW w, HoldsStock(w), NEW v, v.blocks = w.blocks, v.pending = w.pending
    PROVE  HoldsStock(v)
BY DEF HoldsStock

LEMMA NowHolds ==
    ASSUME NEW v, HoldsStock(v), Become(v)
    PROVE  HoldsStock(Now')
<1>1. Now'.blocks = v.blocks /\ Now'.pending = v.pending
  BY DEF Become, Now
<1> QED BY <1>1, HoldsTheSame

\* What the file has after a step.
LEMMA SavedHolds ==
    ASSUME NEW v, Sound(v), HoldsStock(v), HoldsStock(saved), saved' = saved \/ saved' = FileOf(v)
    PROVE  HoldsStock(saved')
<1>1. HoldsStock(FileOf(v))
  BY FileOfStock
<1> QED BY <1>1

LEMMA StockAgain ==
    ASSUME NEW v, Sound(v), HoldsStock(v), Become(v), HoldsStock(saved),
           saved' = saved \/ saved' = FileOf(v),
           miner'.at = "searching" => AllFromStock(candidate'.transactions)
    PROVE  NodeStock'
<1>1. HoldsStock(Now') /\ HoldsStock(saved')
  BY NowHolds, SavedHolds
<1>2. HoldsStock(Now)' /\ HoldsStock(saved)'
  BY <1>1
<1> QED BY <1>2 DEF NodeStock

LEMMA HandledStock ==
    ASSUME PeersSendStock, NodeInv, NodeStock, NEW v, Handled(v)
    PROVE  NodeStock'
<1> SUFFICES ASSUME ~private PROVE NodeStock'
  BY DEF Handled, NodeStock
<1> DEFINE w == Touched(Now)
<1>1. w.blocks = blocks /\ w.pending = pending
  BY TouchedIsReady
<1>2. /\ Comes(v, w) /\ Sound(v) /\ Become(v)
      /\ candidate' = candidate /\ miner' = [miner EXCEPT !.cancel = v.cancel]
      /\ saved' = saved \/ saved' = FileOf(v)
  BY DEF Handled, Grown
<1> HIDE DEF w
<1>3. HoldsStock(w)
  BY <1>1, NowIs, HoldsTheSame DEF NodeStock
<1>4. HoldsStock(v)
  BY <1>2, <1>3, ComesFromStock
<1>5. miner'.at = miner.at
  BY <1>2 DEF NodeInv, MinerOk
<1>6. /\ HoldsStock(saved)
      /\ miner'.at = "searching" => AllFromStock(candidate'.transactions)
  BY <1>2, <1>5 DEF NodeStock
<1> QED BY <1>2, <1>4, <1>6, StockAgain

\* The blocks and the pool as they were.
LEMMA SameStock ==
    ASSUME NodeInv, NodeStock, UNCHANGED chainVars, private' = private,
           saved' = saved \/ saved' = FileOf(Now),
           ~private /\ miner'.at = "searching" => AllFromStock(candidate'.transactions)
    PROVE  NodeStock'
<1> SUFFICES ASSUME ~private PROVE NodeStock'
  BY DEF NodeStock
<1>1. HoldsStock(Now) /\ HoldsStock(saved) /\ Sound(Now)
  BY DEF NodeStock, NodeInv
<1>2. Now'.blocks = Now.blocks /\ Now'.pending = Now.pending
  BY DEF chainVars, Now
<1>3. HoldsStock(Now') /\ HoldsStock(saved')
  BY <1>1, <1>2, HoldsTheSame, SavedHolds
<1>4. HoldsStock(Now)' /\ HoldsStock(saved)'
  BY <1>3
<1> QED BY <1>4 DEF NodeStock

LEMMA TransactionStock ==
    ASSUME NodeInv, NodeStock, NEW tx \in Transactions, HandleTransaction(tx)
    PROVE  NodeStock'
<1> SUFFICES ASSUME ~private PROVE NodeStock'
  BY DEF HandleTransaction, NodeStock
<1> DEFINE w == Touched(Now)
           v == [w EXCEPT !.pending = Append(@, tx)]
<1>1. /\ Ready(w) /\ IsNode(w) /\ w.blocks = blocks /\ w.pending = pending /\ IsSeq(pending)
  BY TouchedIsReady DEF Ready, Sound, TypesOf
<1>2. Settle(v, TRUE) /\ candidate' = candidate
  BY DEF HandleTransaction
<1> DEFINE more == Append(pending, tx)
<1>3. IsSeq(more) /\ ToSet(more) = ToSet(pending) \cup {tx}
  BY <1>1, PushedIsSeq
<1> HIDE DEF more
<1>4. /\ IsNode(v) /\ v.blocks = blocks /\ v.pending = more
      /\ v.states = w.states /\ v.mainTip = w.mainTip
  BY <1>1 DEF IsNode, NowFields, more
<1> HIDE DEF v
<1>5. Sound(v)
  <2>1. Sound(w)
    BY <1>1 DEF Ready
  <2> HIDE DEF w
  <2> QED BY <1>1, <1>3, <1>4, <2>1, SameIsSound
<1>6. HoldsStock(v)
  <2>1. HoldsStock(Now) /\ FromStock(tx) /\ ~IsReward(tx)
    BY DEF NodeStock, HandleTransaction, FromStock, Stock
  <2> QED BY <1>3, <1>4, <2>1, NowIs DEF HoldsStock
<1>7. Become(v) /\ saved' = FileOf(v) /\ miner' = [miner EXCEPT !.cancel = v.cancel]
  BY <1>2 DEF Settle, Save
<1>8. miner'.at = miner.at
  BY <1>7 DEF NodeInv, MinerOk
<1>9. /\ HoldsStock(saved)
      /\ miner'.at = "searching" => AllFromStock(candidate'.transactions)
  BY <1>2, <1>8 DEF NodeStock
<1> QED BY <1>5, <1>6, <1>7, <1>9, StockAgain

LEMMA SelectStock ==
    ASSUME NodeInv, LoadsOk, NodeStock, Select
    PROVE  NodeStock'
<1>1. UNCHANGED chainVars /\ private' = private /\ saved' = saved
  BY DEF Select
<1>2. ASSUME ~private PROVE AllFromStock(candidate'.transactions)
  <2> DEFINE state == StateAt(miner.tip)
             selected == SelectedTransactions(pending, state)
             reward == RewardTransaction(Wallet, CollectedFees(selected, state))
  <2>1. candidate'.transactions = <<reward>> \o selected
    <3>1. candidate' = BlockOf(Wallet, miner.tip, state, selected)
      BY DEF Select, MinedBlock
    <3> QED BY <3>1 DEF BlockOf
  <2>2. IsSeq(pending) /\ HaveFees(pending)
    <3>1. IsSeq(pending) /\ PoolOk(Now)
      BY <1>2, NowIs DEF NodeInv, Sound, TypesOf, LoadsOk
    <3> DEFINE main == StateIn(Now, mainTip)
    <3>2. ApplyInOrder(pending, main.ledger, main.height + 1).ok
      BY <3>1, NowIs DEF PoolOk, PoolOn
    <3> HIDE DEF main
    <3> QED BY <3>1, <3>2, AppliedHaveFees
  <2>3. IsReward(reward)
    BY DEF RewardTransaction, IsReward
  <2> HIDE DEF state, reward
  <2>4. IsSeq(selected) /\ ToSet(selected) \subseteq ToSet(pending)
    BY <2>2, SelectedParts
  <2> HIDE DEF selected
  <2>5. ToSet(<<reward>> \o selected) = {reward} \cup ToSet(selected)
    BY <2>4, OneBefore
  <2>6. \A tx \in ToSet(pending) : FromStock(tx)
    BY <1>2, NowIs DEF NodeStock, HoldsStock
  <2> QED BY <2>1, <2>3, <2>4, <2>5, <2>6 DEF AllFromStock, FromStock
<1> QED BY <1>1, <1>2, SameStock

LEMMA FoundStock ==
    ASSUME NodeInv, NodeStock, NEW hash, FindBlock(hash), NEW v, Found(v, hash), ~private
    PROVE  NodeStock'
<1>1. /\ Sound(v) /\ Extends(v, Now) /\ v.blocks[hash] = candidate
      /\ DOMAIN v.blocks = Stored \cup {hash}
      /\ v.pending = Reconciled(v.blocks, StateIn(v, v.mainTip), mainTip, v.mainTip, pending)
  BY FoundIsSound
<1>2. /\ HoldsStock(Now) /\ HoldsStock(saved) /\ AllFromStock(candidate.transactions)
  BY DEF NodeStock, FindBlock
<1>3. /\ saved' = saved /\ Become(v) /\ miner'.at = "found"
  BY DEF Found, FindBlock, NodeInv, MinerOk
<1>4. \A h \in DOMAIN v.blocks : AllFromStock(v.blocks[h].transactions)
  <2>1. \A h \in Stored : v.blocks[h] = blocks[h] /\ AllFromStock(blocks[h].transactions)
    BY <1>1, <1>2, NowIs DEF Extends, HoldsStock, Stored
  <2> QED BY <1>1, <1>2, <2>1
<1>5. \A tx \in ToSet(v.pending) : FromStock(tx) /\ ~IsReward(tx)
  <2> DEFINE tree      == v.blocks
             height    == HeightsOf(v)
             canonical == StateIn(v, v.mainTip)
             head      == v.mainTip
             kept      == Reconciled(tree, canonical, mainTip, head, pending)
  <2>1. /\ IsTree(tree, height) /\ IsSeq(pending)
        /\ \A h \in DOMAIN tree : IsSeq(tree[h].transactions) /\ AllFromStock(tree[h].transactions)
        /\ mainTip \in DOMAIN tree \cup {NoHash} /\ head \in DOMAIN tree \cup {NoHash}
    BY <1>1, <1>4, NowIs, StoredIsNow, SoundIsTree DEF NodeInv, Sound, TypesOf, TipOf, Stored
  <2>2. \A tx \in ToSet(pending) : FromStock(tx) /\ ~IsReward(tx)
    BY <1>2, NowIs DEF HoldsStock
  <2>3. AllFromStock(pending)
    BY <2>2 DEF AllFromStock
  <2> HIDE DEF tree, height, canonical, head
  <2>4. AllFromStock(kept)
    BY <2>1, <2>3, ReconciledFromStock
  <2>5. ToSet(kept)
          \subseteq ToSet(pending)
                    \cup {tx \in ToSet(BranchTransactions(tree, mainTip, NoHash)) : ~IsReward(tx)}
    BY <2>1, ReconciledComesFrom
  <2> HIDE DEF kept
  <2>6. v.pending = kept
    BY <1>1 DEF kept, tree, canonical, head
  <2> QED BY <2>2, <2>4, <2>5, <2>6 DEF AllFromStock
<1>6. HoldsStock(v)
  BY <1>4, <1>5 DEF HoldsStock
<1> QED BY <1>1, <1>2, <1>3, <1>6, StockAgain

LEMMA FindBlockStock ==
    ASSUME NodeInv, NodeStock, NEW hash, FindBlock(hash)
    PROVE  NodeStock'
<1>1. ASSUME NEW v, Found(v, hash) PROVE NodeStock'
  <2>1. CASE private
    BY <2>1 DEF FindBlock, NodeStock
  <2>2. CASE ~private
    BY <1>1, <2>2, FoundStock
  <2> QED BY <2>1, <2>2
<1>2. CASE Refused
  <2>1. UNCHANGED chainVars /\ private' = private /\ saved' = saved /\ miner'.at = "off"
    BY <1>2 DEF Refused, FindBlock, OffMiner
  <2> QED BY <2>1, SameStock
<1> QED BY <1>1, <1>2, FindBlockCases

LEMMA ResumeStock ==
    ASSUME NodeInv, NodeStock, ResumeLoop
    PROVE  NodeStock'
<1> SUFFICES ASSUME ~private PROVE NodeStock'
  BY DEF ResumeLoop, NodeStock
<1> PICK v : Resumed(v)
  BY ResumeCases
<1>1. Sound(v) /\ SameTree(v, Now) /\ v.pending = pending
  BY ResumedIsSound
<1>2. /\ Become(v) /\ (saved' = FileOf(v) \/ saved' = saved) /\ miner'.at = "loop"
  BY DEF Resumed, Proceed, PersistProgress, Save, ResumeLoop, NodeInv, MinerOk
<1>3. HoldsStock(Now) /\ HoldsStock(saved)
  BY DEF NodeStock
<1>4. HoldsStock(v)
  BY <1>1, <1>3, NowIs, HoldsTheSame DEF SameTree
<1> QED BY <1>1, <1>2, <1>3, <1>4, StockAgain

LEMMA FreshStock == HoldsStock(FreshNode)
<1>1. /\ Sound(FreshNode) /\ FreshNode.pending = << >> /\ DOMAIN FreshNode.blocks = {GenesisHash}
  BY FreshIsSound
<1> DEFINE w == FreshNode
<1> HIDE DEF w
<1>2. w.blocks[GenesisHash].transactions = << >>
  <2>1. /\ w.states[GenesisHash].height \in Nat
        /\ IF w.blocks[GenesisHash].previous_hash = NoHash
           THEN w.states[GenesisHash].height = 0
           ELSE /\ w.blocks[GenesisHash].previous_hash = GenesisHash
                /\ w.states[GenesisHash].height
                     = w.states[w.blocks[GenesisHash].previous_hash].height + 1
    BY <1>1 DEF Sound, TypesOf, TreeOf, w
  <2>2. w.blocks[GenesisHash].previous_hash = NoHash
    BY <2>1
  <2> QED BY <1>1, <2>2 DEF Sound, ReplayOf, IsGenesis, w
<1> QED BY <1>1, <1>2, EmptyToSet DEF HoldsStock, AllFromStock, w

LEMMA RestartStock ==
    ASSUME NodeInv, NodeStock, Crash \/ Shutdown
    PROVE  NodeStock'
<1> SUFFICES ASSUME ~private PROVE NodeStock'
  BY DEF Crash, Shutdown, RestartFrom, NodeStock
<1> PICK file : /\ RestartFrom(file) /\ saved' = file /\ IsFile(file) /\ HoldsStock(file)
  <2>1. CASE Crash
    BY <2>1 DEF Crash, NodeInv, NodeStock
  <2>2. CASE Shutdown
    <3>1. RestartFrom(FileOf(Now)) /\ saved' = FileOf(Now)
      BY <2>2 DEF Shutdown, Save
    <3>2. IsFile(FileOf(Now)) /\ HoldsStock(FileOf(Now))
      BY FileOfIsFile, FileOfStock, NowIs DEF NodeInv, NodeStock
    <3> QED BY <3>1, <3>2
  <2> QED BY <2>1, <2>2
<1> DEFINE s == Started(file)
<1>1. s = FreshNode \/ RestoredFrom(s, file)
  BY StartedIsSound
<1>2. Become(s) /\ miner' = OffMiner
  BY DEF RestartFrom
<1> HIDE DEF s
<1>3. HoldsStock(s)
  <2>1. CASE s = FreshNode
    BY <2>1, FreshStock
  <2>2. CASE RestoredFrom(s, file)
    <3>1. DOMAIN s.blocks = DOMAIN file.blocks
      BY <2>2 DEF RestoredFrom, IsFile
    <3> QED BY <2>2, <3>1 DEF RestoredFrom, HoldsStock
  <2> QED BY <1>1, <2>1, <2>2
<1>4. HoldsStock(Now') /\ HoldsStock(saved')
  BY <1>2, <1>3, NowHolds
<1>5. HoldsStock(Now)' /\ HoldsStock(saved)' /\ miner'.at = "off"
  BY <1>2, <1>4 DEF OffMiner
<1> QED BY <1>5 DEF NodeStock

LEMMA InitNodeStock == NodeInit => NodeStock
<1> SUFFICES ASSUME NodeInit PROVE NodeStock
  OBVIOUS
<1>1. HoldsStock(Now)
  BY FreshIsSound, FreshStock, NowIs, HoldsTheSame DEF NodeInit
<1>2. HoldsStock(saved)
  <2>1. saved.pending = << >> /\ DOMAIN saved.blocks = {}
    BY DEF NodeInit, NoFile
  <2> QED BY <2>1, EmptyToSet DEF HoldsStock
<1>3. miner.at = "off"
  BY DEF NodeInit, OffMiner
<1> QED BY <1>1, <1>2, <1>3 DEF NodeStock

LEMMA NextNodeStock ==
    ASSUME PeersSendStock
    PROVE  NodeInv /\ LoadsOk /\ NodeStock /\ [NodeNext]_allVars => NodeStock'
<1> SUFFICES ASSUME NodeInv, LoadsOk, NodeStock, [NodeNext]_allVars PROVE NodeStock'
  OBVIOUS
<1>1. CASE HandlerStep
  <2>1. ASSUME NEW hash \in DOMAIN PeerBlocks, HandleBlock(hash) PROVE NodeStock'
    BY <2>1, BlockIsHandled, HandledStock
  <2>2. ASSUME NEW chunk \in Chunks, NEW activeFastSync \in BOOLEAN,
               HandleChain(chunk, activeFastSync)
        PROVE  NodeStock'
    BY <2>2, ChainIsHandled, HandledStock
  <2>3. CASE HandleSyncComplete
    <3>1. UNCHANGED chainVars /\ private' = private /\ saved' = FileOf(Now)
          /\ candidate' = candidate /\ miner' = miner
      BY <2>3 DEF HandleSyncComplete, Save, vars, chainVars
    <3>2. ~private /\ miner'.at = "searching" => AllFromStock(candidate'.transactions)
      BY <3>1 DEF NodeStock
    <3> QED BY <3>1, <3>2, SameStock
  <2>4. ASSUME NEW tx \in Transactions, HandleTransaction(tx) PROVE NodeStock'
    BY <2>4, TransactionStock
  <2> QED BY <1>1, <2>1, <2>2, <2>3, <2>4 DEF HandlerStep
<1>2. CASE AutomineStep
  <2>1. CASE StartAutomine \/ BeginSearch
    <3>1. /\ Become(Touched(Now)) /\ private' = private /\ saved' = saved
          /\ miner'.at # "searching"
      BY <2>1 DEF StartAutomine, BeginSearch, OffMiner, NodeInv, MinerOk
    <3>2. UNCHANGED chainVars
      BY <3>1, TouchedIsReady DEF Become, chainVars
    <3> QED BY <3>1, <3>2, SameStock
  <2>2. CASE StopAutomine \/ SearchCancelled \/ EndAutomine
    <3>1. UNCHANGED chainVars /\ private' = private /\ saved' = saved
      BY <2>2 DEF StopAutomine, SearchCancelled, EndAutomine, vars, chainVars
    <3>2. \/ miner'.at # "searching"
          \/ miner'.at = miner.at /\ candidate' = candidate
      <4>1. CASE StopAutomine
        BY <4>1 DEF StopAutomine, NodeInv, MinerOk, vars
      <4>2. CASE SearchCancelled \/ EndAutomine
        BY <4>2 DEF SearchCancelled, EndAutomine, OffMiner
      <4> QED BY <2>2, <4>1, <4>2
    <3>3. ~private /\ miner'.at = "searching" => AllFromStock(candidate'.transactions)
      BY <3>2 DEF NodeStock
    <3> QED BY <3>1, <3>3, SameStock
  <2>3. CASE Select
    BY <2>3, SelectStock
  <2>4. ASSUME NEW hash \in Hashes, FindBlock(hash) PROVE NodeStock'
    BY <2>4, FindBlockStock
  <2>5. CASE ResumeLoop
    BY <2>5, ResumeStock
  <2> QED BY <1>2, <2>1, <2>2, <2>3, <2>4, <2>5 DEF AutomineStep
<1>3. CASE Crash \/ Shutdown
  BY <1>3, RestartStock
<1>4. CASE UNCHANGED allVars
  <2>1. UNCHANGED chainVars /\ private' = private /\ saved' = saved
        /\ miner' = miner /\ candidate' = candidate
    BY <1>4 DEF allVars, vars, nodeVars, chainVars
  <2>2. ~private /\ miner'.at = "searching" => AllFromStock(candidate'.transactions)
    BY <2>1 DEF NodeStock
  <2> QED BY <2>1, <2>2, SameStock
<1> QED BY <1>1, <1>2, <1>3, <1>4 DEF NodeNext

----------------------------------------------------------------------------
(* What a step does to the pool of a node in public.                       *)

\* It is reconciled once, between the tip before and the tip after, or loses
\* nothing while the tip is the same.
RepooledTo(v) ==
    \/ v.mainTip = mainTip /\ ToSet(pending) \subseteq ToSet(v.pending)
    \/ v.pending = Reconciled(v.blocks, StateIn(v, v.mainTip), mainTip, v.mainTip, pending)

Repools == \E v : Become(v) /\ Extends(v, Now) /\ RepooledTo(v)

\* Such a step leaves of a payment that still applies one of its sender's.
LEMMA RepooledKeepsPayment ==
    ASSUME SendersAreIndependent, NodeInv, HoldsStock(Now),
           NEW v, Sound(v), HoldsStock(v), Extends(v, Now), RepooledTo(v),
           NEW tx \in Payments(blocks, mainTip) \cup ToSet(pending),
           tx \notin Payments(v.blocks, v.mainTip), CanApply(tx, StateIn(v, v.mainTip).ledger)
    PROVE  \E other \in ToSet(v.pending) : other.sender = tx.sender
<1> DEFINE tree      == blocks
           height    == HeightsOf(Now)
           more      == v.blocks
           heights   == HeightsOf(v)
           head      == v.mainTip
           canonical == StateIn(v, head)
           kept      == Reconciled(more, canonical, mainTip, head, pending)
<1>1. /\ IsTree(tree, height) /\ IsTree(more, heights)
      /\ DOMAIN tree \subseteq DOMAIN more /\ \A h \in DOMAIN tree : more[h] = tree[h]
      /\ \A h \in DOMAIN more : IsSeq(more[h].transactions)
      /\ mainTip \in DOMAIN tree /\ mainTip \in DOMAIN more \cup {NoHash}
      /\ head \in DOMAIN more \cup {NoHash} /\ IsSeq(pending)
  BY NowIs, StoredIsNow, SoundIsTree DEF NodeInv, Sound, TypesOf, TipOf, Extends, Stored
<1>2. Payments(more, mainTip) = Payments(tree, mainTip)
  <2> HIDE DEF tree, height, more, heights
  <2> QED BY <1>1, PaymentsStay
<1>3. \A t \in ToSet(pending) : FromStock(t) /\ ~IsReward(t)
  BY NowIs DEF HoldsStock
<1>4. ~IsReward(tx)
  BY <1>3 DEF Payments
<1>5. CASE v.mainTip = mainTip /\ ToSet(pending) \subseteq ToSet(v.pending)
  BY <1>2, <1>5
<1>6. CASE v.pending = kept
  <2>1. StockLedger(canonical.ledger)
    BY <1>1, NodeLedgers
  <2>2. canonical.height + 1 \in Nat
    BY <1>1, NoHashAssumption DEF StateIn, FreshState, Sound, TypesOf
  <2>3. \A h \in DOMAIN more : \A t \in ToSet(more[h].transactions) : FromStock(t)
    BY DEF HoldsStock, AllFromStock
  <2>4. /\ tx \in ToSet(pending) \cup ToSet(BranchTransactions(more, mainTip, NoHash))
        /\ tx \notin ToSet(BranchTransactions(more, head, NoHash))
    BY <1>2, <1>4 DEF Payments
  <2>5. CanApply(tx, canonical.ledger)
    OBVIOUS
  <2> HIDE DEF tree, height, more, heights, head, canonical
  <2>6. \E other \in ToSet(kept) : other.sender = tx.sender
    BY <1>1, <1>3, <1>4, <2>1, <2>2, <2>3, <2>4, <2>5, ReconciledKeepsPayment
  <2> HIDE DEF kept
  <2> QED BY <1>6, <2>6
<1> QED BY <1>5, <1>6 DEF RepooledTo

\* No step loses such a payment.
LosesNoPayment ==
    ~private /\ restarts' = restarts =>
        \A tx \in Payments(blocks, mainTip) \cup ToSet(pending) :
            (/\ tx \notin Payments(blocks', mainTip')
             /\ CanApply(tx, (StateAt(mainTip).ledger)'))
            => \E other \in ToSet(pending') : other.sender = tx.sender

LEMMA RepoolsLosesNoPayment ==
    ASSUME SendersAreIndependent, NodeInv, NodeInv', NodeStock, NodeStock', private' = private,
           Repools
    PROVE  LosesNoPayment
<1> SUFFICES ASSUME ~private, NEW tx \in Payments(blocks, mainTip) \cup ToSet(pending),
                    tx \notin Payments(blocks', mainTip'),
                    CanApply(tx, (StateAt(mainTip).ledger)')
             PROVE  \E other \in ToSet(pending') : other.sender = tx.sender
  BY DEF LosesNoPayment
<1>1. PICK v : Become(v) /\ Extends(v, Now) /\ RepooledTo(v)
  BY DEF Repools
<1>2. PICK u : u = Now'
  OBVIOUS
<1>3. Sound(u) /\ HoldsStock(u) /\ HoldsStock(Now)
  BY <1>2 DEF NodeInv, NodeStock
<1>4. /\ u.blocks = blocks' /\ u.states = states' /\ u.mainTip = mainTip' /\ u.pending = pending'
      /\ u.blocks = v.blocks /\ u.states = v.states /\ u.mainTip = v.mainTip
      /\ u.pending = v.pending
  BY <1>1, <1>2 DEF Now, Become
<1>5. Extends(u, Now)
  BY <1>1, <1>4 DEF Extends
<1>6. RepooledTo(u)
  BY <1>1, <1>4 DEF RepooledTo, StateIn
<1>7. StateIn(u, u.mainTip).ledger = (StateAt(mainTip).ledger)'
  BY <1>4 DEF StateIn, StateAt
<1>8. /\ tx \notin Payments(u.blocks, u.mainTip) /\ CanApply(tx, StateIn(u, u.mainTip).ledger)
  BY <1>4, <1>7
<1>9. \E other \in ToSet(u.pending) : other.sender = tx.sender
  BY <1>3, <1>5, <1>6, <1>8, RepooledKeepsPayment
<1> QED BY <1>4, <1>9

\* The chain as it is, and a pool that has all it had.
LEMMA SameRepools ==
    ASSUME blocks' = blocks, states' = states, mainTip' = mainTip,
           ToSet(pending) \subseteq ToSet(pending')
    PROVE  Repools
<1>1. PICK v : v = Now'
  OBVIOUS
<1>2. Become(v)
  BY <1>1 DEF Become, Now
<1>3. Extends(v, Now) /\ RepooledTo(v)
  BY <1>1 DEF Extends, RepooledTo, Now
<1> QED BY <1>2, <1>3 DEF Repools

\* A block that is offered.
LEMMA OfferedRepools ==
    ASSUME ~private, NEW w, Ready(w), w.mainTip = mainTip, w.pending = pending,
           NEW hash \in Hashes, NEW block, IsSeq(block.transactions),
           ToSet(block.transactions) \subseteq FromPeers, NEW synced \in BOOLEAN, ~synced
    PROVE  RepooledTo(Offered(w, hash, block, synced).w)
<1> DEFINE applied == AppliedTo(w, block)
           status  == Status(w, hash, block, applied)
           a       == Accepted(w, hash, block, applied)
           r       == ReconciledIf(~synced, w, a)
           o       == Offered(w, hash, block, synced)
<1>1. o = OfferedAs(status, w, hash, block, applied, synced)
  BY DEF Offered, OfferedWith
<1>2. IsNode(w) /\ Sound(w)
  BY DEF Ready, Sound
<1>3. CASE status = "accepted"
  <2>1. Grown(a, w, TRUE)
    BY <1>3, AcceptedGrows
  <2>2. o.w = Reconcile(a, StateTip(w), StateTip(a))
    <3>1. o.w = r
      BY <1>1, <1>3 DEF OfferedAs
    <3>2. r = Reconcile(a, StateTip(w), StateTip(a))
      BY DEF ReconciledIf
    <3> QED BY ONLY <3>1, <3>2
  <2>3. StateTip(w) = mainTip /\ StateTip(a) = a.mainTip
    BY DEF StateTip
  <2> HIDE DEF o, a, status
  <2>4. IsNode(a) /\ a.pending = pending
    BY <2>1 DEF Grown, Sound
  <2> DEFINE kept == Reconciled(a.blocks, StateIn(a, a.mainTip), mainTip, a.mainTip, pending)
  <2>5. o.w = [a EXCEPT !.pending = kept]
    BY <2>2, <2>3, <2>4 DEF Reconcile
  <2>6. /\ o.w.pending = kept /\ o.w.blocks = a.blocks /\ o.w.states = a.states
        /\ o.w.mainTip = a.mainTip
    <3> HIDE DEF kept
    <3> QED BY <2>4, <2>5 DEF IsNode, NowFields
  <2>7. StateIn(o.w, o.w.mainTip) = StateIn(a, a.mainTip)
    BY <2>6 DEF StateIn
  <2>8. RepooledTo(o.w)
    BY <2>6, <2>7 DEF RepooledTo
  <2> QED BY <2>8 DEF o
<1>4. CASE status # "accepted"
  <2>1. o.w = Forget(w, hash) \/ o.w = StoreOrphan(w, hash, block.previous_hash)
    BY <1>2, <1>4, OfferedCases
  <2> HIDE DEF o
  <2>2. o.w.mainTip = mainTip /\ o.w.pending = pending
    BY <1>2, <2>1 DEF Forget, StoreOrphan, IsNode, NowFields
  <2>3. RepooledTo(o.w)
    BY <2>2 DEF RepooledTo
  <2> QED BY <2>3 DEF o
<1> QED BY <1>3, <1>4

\* A block no orphan waits for.
LEMMA NothingToResolve ==
    ASSUME NEW w, NEW hash, hash \notin DOMAIN w.orphans, NEW synced,
           Cardinality(w.orphanHashes) \in Nat
    PROVE  ResolveOrphans(w, hash, synced) = WithoutParent(w, hash)
<1> DEFINE last == Cardinality(w.orphanHashes) + 1
           done == [w |-> WithoutParent(w, hash), stack |-> << >>]
           run  == [w |-> w, stack |-> <<hash>>]
<1>1. last \in Nat /\ 1 \in 0 .. last
  OBVIOUS
<1>2. PICK f : /\ f = [n \in 0 .. last |-> NextResolved(w, hash, synced, f, n)]
               /\ ResolveOrphans(w, hash, synced) = f[last].w
  BY ONLY <1>1, ResolveOrphansSolves
<1> HIDE DEF last
<1>3. \A n \in 0 .. last : f[n] = NextResolved(w, hash, synced, f, n)
  BY <1>2
<1>4. PopParent(run, hash, synced) = done
  <2>1. Waiting(run.w, hash) = << >>
    BY DEF Waiting
  <2>2. Len(Waiting(run.w, hash)) = 0
    BY <2>1
  <2> HIDE DEF run
  <2>3. PICK t : /\ t = [n \in 0 .. 0 |-> NextTried(run, hash, synced, t, n)]
                 /\ PopParent(run, hash, synced) = t[0]
    BY ONLY <2>2, PopParentSolves
  <2>4. t[0] = NextTried(run, hash, synced, t, 0)
    BY ONLY <2>3
  <2>5. t[0] = [w |-> WithoutParent(run.w, hash), stack |-> Front(run.stack)]
    BY <2>4 DEF NextTried
  <2>6. run.w = w /\ run.stack = <<hash>>
    BY DEF run
  <2>7. Front(<<hash>>) = << >>
    BY DEF Front
  <2> QED BY <2>3, <2>5, <2>6, <2>7
<1>5. f[0] = run
  BY <1>1, <1>3 DEF NextResolved
<1>6. f[1] = done
  <2>1. f[1] = NextResolved(w, hash, synced, f, 1)
    BY <1>1, <1>3
  <2>2. f[0].stack = <<hash>> /\ <<hash>> # << >> /\ Last(<<hash>>) = hash
    BY <1>5 DEF Last
  <2> HIDE DEF run, done
  <2>3. NextResolved(w, hash, synced, f, 1) = PopParent(f[0], Last(f[0].stack), synced)
    <3>1. 1 - 1 = 0 /\ 1 # 0 /\ 1 > 0
      OBVIOUS
    <3> QED BY <2>2, <3>1 DEF NextResolved
  <2> QED BY <1>4, <1>5, <2>1, <2>2, <2>3
<1> DEFINE Held == {n \in 0 .. last : n = 0 \/ f[n] = done}
<1>7. ASSUME NEW n \in 0 .. last, n # last, n \in Held
      PROVE  n + 1 \in Held
  <2>1. n + 1 \in 0 .. last /\ n + 1 # 0 /\ n + 1 > 0 /\ (n + 1) - 1 = n
    BY <1>1, <1>7
  <2>2. CASE n = 0
    BY <1>6, <2>1, <2>2
  <2>3. CASE n # 0
    <3>1. f[n] = done
      BY <1>7, <2>3
    <3>2. f[n + 1] = NextResolved(w, hash, synced, f, n + 1)
      BY <1>3, <2>1
    <3>3. f[n].stack = << >>
      BY <3>1
    <3> HIDE DEF done
    <3>4. f[n + 1] = f[n]
      BY <2>1, <3>2, <3>3 DEF NextResolved
    <3> QED BY <2>1, <3>1, <3>4
  <2> QED BY <2>2, <2>3
<1>8. 0 .. last \subseteq Held
  <2>1. 0 \in Held
    BY <1>1
  <2> HIDE DEF Held, done
  <2> QED BY <1>1, <1>7, <2>1, HoldsUpTo
<1>9. last # 0 /\ last \in 0 .. last
  BY <1>1
<1>10. f[last] = done
  BY <1>8, <1>9
<1> QED BY <1>2, <1>10

LEMMA BlockRepools ==
    ASSUME NodeInv, ~private, NEW hash \in DOMAIN PeerBlocks, HandleBlock(hash),
           hash \notin DOMAIN orphans
    PROVE  Repools
<1> DEFINE w     == Touched(Now)
           block == PeerBlocks[hash]
           o     == Offered(w, hash, block, FALSE)
           r     == AcceptOrStore(w, hash, block, FALSE)
<1>1. /\ Ready(w) /\ WaitFor(w, {}, {}) /\ IsNode(w)
      /\ w.blocks = blocks /\ w.states = states /\ w.mainTip = mainTip /\ w.pending = pending
      /\ w.orphans = orphans /\ IsFiniteSet(w.orphanHashes)
  BY TouchedIsReady DEF Ready, Sound, WaitFor
<1>2. Become(r.w)
  BY DEF HandleBlock, SettleBlock, Settle
<1> HIDE DEF w
<1>3. Grown(o.w, w, FALSE) /\ RepooledTo(o.w)
  BY <1>1, PeerBlocksAreBlocks, OfferedGrows, OfferedRepools
<1>4. r = IF o.accepted THEN [o EXCEPT !.w = ResolveOrphans(@, hash, FALSE)] ELSE o
  BY DEF AcceptOrStore, WithDescendants
<1>5. /\ o.accepted \in BOOLEAN /\ DOMAIN o = {"accepted", "w"}
      /\ o.accepted => /\ o.w.orphans = w.orphans
                       /\ o.w.orphanHashes = w.orphanHashes \ {hash}
  <2> DEFINE applied == AppliedTo(w, block)
             status  == Status(w, hash, block, applied)
  <2>1. /\ o.accepted = (status = "accepted")
        /\ status = "accepted" =>
              /\ Gains(o.w, w, hash, block, applied)
              /\ o.w.orphanHashes = w.orphanHashes \ {hash}
    <3> DEFINE synced == FALSE
               x      == Offered(w, hash, block, synced)
    <3>1. IsNode(w)
      BY <1>1
    <3>2. /\ x.accepted = (status = "accepted")
          /\ status = "accepted" =>
                /\ Gains(x.w, w, hash, block, applied)
                /\ x.w.orphanHashes = w.orphanHashes \ {hash}
      <4> HIDE DEF synced
      <4> QED BY ONLY <3>1, OfferedCases
    <3> QED BY ONLY <3>2
  <2> QED BY <2>1 DEF Gains, Offered, OfferedWith, OfferedAs
<1> HIDE DEF o, r
<1>6. /\ IsNode(o.w) /\ Extends(o.w, w)
  BY <1>3 DEF Grown, Sound
<1>7. r.w.blocks = o.w.blocks /\ r.w.states = o.w.states /\ r.w.mainTip = o.w.mainTip
      /\ r.w.pending = o.w.pending
  <2>1. CASE o.accepted
    <3>1. r.w = ResolveOrphans(o.w, hash, FALSE)
      BY <1>4, <1>5, <2>1
    <3>2. Cardinality(o.w.orphanHashes) \in Nat
      BY <1>1, <1>5, <2>1, FS_RemoveElement, FS_CardinalityType
    <3>3. r.w = WithoutParent(o.w, hash)
      BY <1>1, <1>5, <2>1, <3>1, <3>2, NothingToResolve
    <3> QED BY <1>6, <3>3 DEF WithoutParent, IsNode, NowFields
  <2>2. CASE ~o.accepted
    BY <1>4, <2>2
  <2> QED BY <1>5, <2>1, <2>2
<1>8. StateIn(r.w, r.w.mainTip) = StateIn(o.w, o.w.mainTip)
  BY <1>7 DEF StateIn
<1>9. Extends(r.w, Now) /\ RepooledTo(r.w)
  BY <1>1, <1>3, <1>6, <1>7, <1>8, NowIs DEF Extends, RepooledTo
<1> QED BY <1>2, <1>9 DEF Repools

LEMMA ChainRepools ==
    ASSUME NodeInv, ~private, NEW chunk \in Chunks, NEW activeFastSync \in BOOLEAN,
           HandleChain(chunk, activeFastSync)
    PROVE  Repools
<1> DEFINE w == Touched(Now)
           r == Imported(w, chunk)
           v == IF r.accepted THEN ReconcileSynced(Now, r.w) ELSE r.w
<1>1. /\ Ready(w) /\ WaitFor(w, {}, {})
      /\ w.blocks = blocks /\ w.states = states /\ w.mainTip = mainTip /\ w.pending = pending
  BY TouchedIsReady
<1>2. chunk \in Seq(DOMAIN PeerBlocks)
  BY ChunksAssumption
<1>3. \A i \in DOMAIN chunk : PeerBlocks[chunk[i]].previous_hash \in MayBeParent \cup {NoHash}
  BY DEF HandleChain, MayArrive, MayBeParent
<1>4. Become(v)
  BY DEF HandleChain, SettleChain, Settle
<1> HIDE DEF w
<1>5. ImportedFrom(r, w)
  BY <1>1, <1>2, <1>3, ImportedWaits
<1> HIDE DEF r
<1>6. Grown(r.w, w, TRUE) /\ IsNode(r.w) /\ r.w.pending = pending /\ Extends(r.w, Now)
  BY <1>1, <1>5, NowIs DEF ImportedFrom, Grown, Sound, Extends
<1>7. CASE ~r.accepted
  <2>1. v = r.w
    BY <1>7
  <2>2. r.w.mainTip = mainTip
    BY <1>1, <1>5, <1>7 DEF ImportedFrom
  <2> HIDE DEF v
  <2> QED BY <1>4, <1>6, <2>1, <2>2 DEF Repools, RepooledTo
<1>8. CASE r.accepted
  <2> DEFINE a == r.w
             kept == Reconciled(a.blocks, StateIn(a, a.mainTip), mainTip, a.mainTip, pending)
  <2>1. StateTip(Now) = mainTip /\ StateTip(a) = a.mainTip
    BY NowIs DEF StateTip
  <2>2. v = [a EXCEPT !.pending = kept]
    BY <1>6, <1>8, <2>1 DEF ReconcileSynced, Reconcile
  <2> HIDE DEF v
  <2>3. /\ v.pending = kept /\ v.blocks = a.blocks /\ v.states = a.states
        /\ v.mainTip = a.mainTip
    <3> HIDE DEF kept
    <3> QED BY <1>6, <2>2 DEF IsNode, NowFields
  <2>4. StateIn(v, v.mainTip) = StateIn(a, a.mainTip)
    BY <2>3 DEF StateIn
  <2>5. RepooledTo(v) /\ Extends(v, Now)
    BY <1>6, <2>3, <2>4 DEF RepooledTo, Extends
  <2> QED BY <1>4, <2>5 DEF Repools
<1> QED BY <1>7, <1>8

LEMMA TransactionRepools ==
    ASSUME NodeInv, NEW tx, HandleTransaction(tx)
    PROVE  Repools
<1>1. blocks' = blocks /\ states' = states /\ mainTip' = mainTip
  BY TransactionInv DEF Quiet
<1>2. pending' = Append(pending, tx) /\ IsSeq(pending)
  <2> DEFINE w == Touched(Now)
             more == Append(pending, tx)
  <2>1. IsNode(w) /\ w.pending = pending /\ IsSeq(pending)
    BY TouchedIsReady DEF Ready, Sound, TypesOf
  <2>2. Become([w EXCEPT !.pending = Append(@, tx)])
    BY DEF HandleTransaction, Settle
  <2> HIDE DEF w
  <2>3. Become([w EXCEPT !.pending = more])
    BY <2>1, <2>2
  <2> HIDE DEF more
  <2>4. pending' = more
    BY <2>1, <2>3 DEF Become, IsNode, NowFields
  <2> QED BY <2>1, <2>4 DEF more
<1>3. ToSet(pending) \subseteq ToSet(pending')
  BY <1>2, PushedIsSeq
<1> QED BY <1>1, <1>3, SameRepools

LEMMA FindBlockRepools ==
    ASSUME NodeInv, ~private, NEW hash, FindBlock(hash)
    PROVE  Repools
<1>1. ASSUME NEW v, Found(v, hash) PROVE Repools
  <2>1. /\ Extends(v, Now)
        /\ v.pending = Reconciled(v.blocks, StateIn(v, v.mainTip), mainTip, v.mainTip, pending)
    BY ONLY <1>1, FoundIsSound, NodeInv, ~private, FindBlock(hash)
  <2>2. Become(v)
    BY <1>1 DEF Found
  <2>3. RepooledTo(v)
    BY <2>1 DEF RepooledTo
  <2> QED BY <2>1, <2>2, <2>3 DEF Repools
<1>2. CASE Refused
  BY <1>2, SameRepools DEF Refused, chainVars
<1> QED BY <1>1, <1>2, FindBlockCases

LEMMA ResumeRepools ==
    ASSUME NodeInv, ~private, ResumeLoop
    PROVE  Repools
<1> PICK v : Resumed(v)
  BY ResumeCases
<1>1. SameTree(v, Now) /\ v.pending = pending /\ Become(v)
  BY ResumedIsSound DEF Resumed, Proceed
<1> QED BY <1>1, NowIs, SameRepools DEF SameTree, Become

LEMMA NextLosesNoPayment ==
    ASSUME SendersAreIndependent
    PROVE  /\ NodeInv /\ NodeStock /\ NodeInv' /\ NodeStock' /\ restarts \in Nat
           /\ [NodeNext]_allVars /\ ~WakesOrphans
           => LosesNoPayment
<1> SUFFICES ASSUME NodeInv, NodeStock, NodeInv', NodeStock', restarts \in Nat,
                    [NodeNext]_allVars, ~WakesOrphans,
                    ~private, restarts' = restarts
             PROVE  LosesNoPayment
  BY DEF LosesNoPayment
<1>1. Repools /\ private' = private
  <2>1. CASE UNCHANGED allVars
    BY <2>1, SameRepools DEF allVars, vars, nodeVars, chainVars
  <2>2. CASE HandlerStep
    <3>1. ASSUME NEW hash \in DOMAIN PeerBlocks, HandleBlock(hash)
          PROVE  Repools /\ private' = private
      <4>1. hash \notin DOMAIN orphans
        BY <3>1 DEF WakesOrphans
      <4>2. private' = private
        BY <3>1 DEF HandleBlock
      <4> QED BY <3>1, <4>1, <4>2, BlockRepools
    <3>2. ASSUME NEW chunk \in Chunks, NEW activeFastSync \in BOOLEAN,
                 HandleChain(chunk, activeFastSync)
          PROVE  Repools /\ private' = private
      <4>1. private' = private
        BY <3>2 DEF HandleChain
      <4> QED BY <3>2, <4>1, ChainRepools
    <3>3. CASE HandleSyncComplete
      BY <3>3, SameRepools DEF HandleSyncComplete, vars, chainVars
    <3>4. ASSUME NEW tx \in Transactions, HandleTransaction(tx)
          PROVE  Repools /\ private' = private
      <4>1. private' = private
        BY <3>4 DEF HandleTransaction
      <4> QED BY <3>4, <4>1, TransactionRepools
    <3> QED BY <2>2, <3>1, <3>2, <3>3, <3>4 DEF HandlerStep
  <2>3. CASE AutomineStep
    <3>1. CASE StartAutomine \/ BeginSearch
      <4>1. Become(Touched(Now)) /\ private' = private
        BY <3>1 DEF StartAutomine, BeginSearch
      <4>2. UNCHANGED chainVars
        BY <4>1, TouchedIsReady DEF Become, chainVars
      <4> QED BY <4>1, <4>2, SameRepools DEF chainVars
    <3>2. CASE StopAutomine \/ Select \/ SearchCancelled \/ EndAutomine
      <4>1. UNCHANGED chainVars /\ private' = private
        BY <3>2 DEF StopAutomine, Select, SearchCancelled, EndAutomine, vars, chainVars
      <4> QED BY <4>1, SameRepools DEF chainVars
    <3>3. ASSUME NEW hash \in Hashes, FindBlock(hash)
          PROVE  Repools /\ private' = private
      <4>1. private' = private
        BY <3>3 DEF FindBlock
      <4> QED BY <3>3, <4>1, FindBlockRepools
    <3>4. CASE ResumeLoop
      <4>1. private' = private
        BY <3>4 DEF ResumeLoop
      <4> QED BY <3>4, <4>1, ResumeRepools
    <3> QED BY <2>3, <3>1, <3>2, <3>3, <3>4 DEF AutomineStep
  <2>4. ~(Crash \/ Shutdown)
    <3>1. Crash \/ Shutdown => restarts' = restarts + 1
      BY DEF Crash, Shutdown, RestartFrom
    <3> QED BY <3>1
  <2> QED BY <2>1, <2>2, <2>3, <2>4 DEF NodeNext
<1> QED BY <1>1, RepoolsLosesNoPayment

LEMMA NextCountsRestarts == restarts \in Nat /\ [NodeNext]_allVars => (restarts \in Nat)'
<1> SUFFICES ASSUME restarts \in Nat, [NodeNext]_allVars
             PROVE  restarts' \in Nat
  OBVIOUS
<1>1. CASE Crash \/ Shutdown
  BY <1>1 DEF Crash, Shutdown, RestartFrom
<1>2. CASE HandlerStep
  BY <1>2 DEF HandlerStep, HandleBlock, HandleChain, HandleSyncComplete, HandleTransaction
<1>3. CASE AutomineStep
  BY <1>3 DEF AutomineStep, StartAutomine, StopAutomine, BeginSearch, Select, FindBlock,
              ResumeLoop, SearchCancelled, EndAutomine
<1>4. CASE UNCHANGED allVars
  BY <1>4 DEF allVars, nodeVars
<1> QED BY <1>1, <1>2, <1>3, <1>4 DEF NodeNext

\* In public, _handle_incoming_block, _handle_chain_response and the mining
\* thread keep of every payment of the chain or the pool that could be mined on
\* the new tip one of its sender's, however the chain is reorganised, when the
\* wallets' transactions are independent and no orphan waits for a block that
\* arrives by itself (WakesOrphans, which the property excepts).
THEOREM NodesKeepPayments ==
    ASSUME SendersAreIndependent, PeersSendStock
    PROVE  NodeSpec => NodeKeepsTransactions
<1>1. NodeInit => restarts \in Nat
  BY DEF NodeInit
<1>2. NodeInv /\ LoadsOk /\ [NodeNext]_allVars => LoadsOk'
  BY NextLoads
<1>3. NodeInv /\ LoadsOk /\ NodeStock /\ [NodeNext]_allVars => NodeStock'
  BY NextNodeStock
<1>4. /\ NodeInv /\ NodeStock /\ NodeInv' /\ NodeStock' /\ restarts \in Nat
      /\ [NodeNext]_allVars
      => [~private /\ restarts' = restarts /\ ~WakesOrphans =>
            \A tx \in Payments(blocks, mainTip) \cup ToSet(pending) :
                (/\ tx \notin Payments(blocks', mainTip')
                 /\ CanApply(tx, (StateAt(mainTip).ledger)'))
                => \E other \in ToSet(pending') : other.sender = tx.sender]_allVars
  BY NextLosesNoPayment DEF LosesNoPayment
<1> QED BY <1>1, <1>2, <1>3, <1>4, InitLoads, InitNodeStock, NextCountsRestarts, NodeInvHolds, PTL
        DEF NodeSpec, NodeKeepsTransactions

=============================================================================
