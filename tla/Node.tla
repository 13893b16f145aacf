-------------------------------- MODULE Node --------------------------------
(***************************************************************************)
(* The Node object (node/node.py) around one Blockchain: blocks, chunks of *)
(* a chain and transactions from peers, blocks that came before their      *)
(* parents, the automine loop with its mining thread, the preferred tip of *)
(* private automine, and the file (node/storage.py) a restart begins with. *)
(*                                                                         *)
(* Handlers run on one event loop and are atomic; the mining thread works  *)
(* on the same object between them.  A handler is written as a function of *)
(* what it may change, the record Now, since one call may add many blocks. *)
(***************************************************************************)
EXTENDS Blockchain

CONSTANTS
    GenesisHash,       \* the block create_genesis_block makes
    PeerBlocks,        \* hash -> block: the blocks other nodes have built
    Chunks,            \* sequences of their hashes: what a chain sync may deliver
    Wallet,            \* the wallet this node mines for
    PersistInterval,   \* mined_block_persist_interval
    MaxRestarts        \* bound, of a node with a private tip and of one without

ASSUME GenesisHashAssumption == GenesisHash \in Hashes \ DOMAIN PeerBlocks
ASSUME PersistIntervalAssumption == PersistInterval \in Nat
ASSUME PeerBlocksAssumption ==
    /\ DOMAIN PeerBlocks \subseteq Hashes
    /\ \A h \in DOMAIN PeerBlocks :
          PeerBlocks[h].transactions \in Seq(ToSet(PeerBlocks[h].transactions))
ASSUME ChunksAssumption == Chunks \subseteq Seq(DOMAIN PeerBlocks)

VARIABLES
    private,        \* private_automine
    privateTip,     \* _private_automine_tip_hash, NoHash for None
    orphans,        \* orphan_blocks_by_parent_hash: parent -> sequence of hashes
    orphanHashes,   \* orphan_block_hashes
    miner,          \* the automine loop: see OffMiner
    sent,           \* own blocks that were broadcast: peers may extend them
    saved,          \* the file: the main chain's blocks and the pool
    unsaved,        \* _mined_blocks_since_persist
    deferred,       \* _deferred_chain_sync_save_pending
    restarts        \* bound

nodeVars == <<private, privateTip, orphans, orphanHashes, miner, sent, saved, unsaved,
              deferred, restarts>>
allVars == <<vars, nodeVars>>

\* at: "off", "loop" at the head of the loop, "started" the tip is read and
\* the thread on its way, "searching" the thread has its block (candidate),
\* "found" the block is added, as hash, and the loop not resumed yet.  tip is
\* _current_automine_tip_hash, stop _automine_stop_requested.
OffMiner == [at |-> "off", tip |-> NoHash, hash |-> NoHash, stop |-> FALSE, cancel |-> FALSE]

----------------------------------------------------------------------------
(* What a handler may change.                                              *)

Now == [ blocks |-> blocks, states |-> states, mainTip |-> mainTip, pending |-> pending,
         orphans |-> orphans, orphanHashes |-> orphanHashes, privateTip |-> privateTip,
         cancel |-> miner.cancel ]

Become(w) ==
    /\ blocks' = w.blocks /\ states' = w.states
    /\ mainTip' = w.mainTip /\ pending' = w.pending
    /\ orphans' = w.orphans /\ orphanHashes' = w.orphanHashes
    /\ privateTip' = w.privateTip

\* StateAt, BecomesTip and ExtendsParent on the chain of w.
StateIn(w, tip) == IF tip = NoHash THEN FreshState ELSE w.states[tip]

BecomesTipOf(w, block) ==
    w.mainTip = NoHash \/ block.block_id > w.states[w.mainTip].height

ExtendsParentIn(w, block) ==
    IF block.previous_hash = NoHash
    THEN IsGenesis(block) /\ \A h \in DOMAIN w.blocks : w.blocks[h].previous_hash # NoHash
    ELSE /\ block.previous_hash \in DOMAIN w.blocks
         /\ block.block_id = w.states[block.previous_hash].height + 1

\* _mining_tip_hash, _state_tip_hash
StateTip(w) == IF private /\ w.privateTip \in DOMAIN w.states THEN w.privateTip ELSE w.mainTip

\* The same call takes the main tip as the preferred one if there is none.
Touched(w) == IF private THEN [w EXCEPT !.privateTip = StateTip(w)] ELSE w

IsAncestor(w, ancestor, hash) == ancestor \in ToSet(ChainTo(w.blocks, hash))

\* reconcile_pending_transactions(previous, current): what is kept is what
\* applies to the main tip, whichever heads are given.
Reconcile(w, previous, current) ==
    [w EXCEPT !.pending = Reconciled(w.blocks, StateIn(w, w.mainTip), previous, current, @)]

\* add_block_result: what it returns, given the block applied to its parent,
\* and what it leaves behind but for the pool.
AppliedTo(w, block) ==
    IF block.previous_hash \in DOMAIN w.states
    THEN AppliedBlock(block, w.states[block.previous_hash].ledger)
    ELSE AppliedBlock(block, EmptyLedger)

Status(w, hash, block, applied) ==
    CASE hash \in DOMAIN w.blocks -> "duplicate"
      [] /\ hash \notin DOMAIN w.blocks
         /\ block.previous_hash \notin DOMAIN w.blocks \cup {NoHash} -> "missing_parent"
      [] /\ hash \notin DOMAIN w.blocks
         /\ ExtendsParentIn(w, block)
         /\ IsWellFormed(block)
         /\ ClaimsItsFees(block, applied) -> "accepted"
      [] OTHER -> "rejected"

StoredIn(w, hash, block, applied) ==
    [w EXCEPT !.blocks = With(@, hash, block),
              !.states = With(@, hash, [height |-> block.block_id, ledger |-> applied.ledger]),
              !.mainTip = IF BecomesTipOf(w, block) THEN hash ELSE @]

----------------------------------------------------------------------------
(* Blocks from peers.                                                      *)

Forget(w, hash) == [w EXCEPT !.orphanHashes = @ \ {hash}]

\* _handle_accepted_block_for_automine: a block on the preferred branch moves
\* the private tip; a search on a tip that is mined on no longer is cancelled.
TellAutomine(w, hash) ==
    IF private
    THEN IF w.privateTip \notin {NoHash, hash} /\ IsAncestor(w, w.privateTip, hash)
         THEN [w EXCEPT !.privateTip = hash,
                        !.cancel = @ \/ /\ miner.at # "off"
                                        /\ IsAncestor(w, miner.tip, hash)]
         ELSE w
    ELSE [w EXCEPT !.cancel = @ \/ /\ miner.at # "off"
                                   /\ miner.tip \notin {NoHash, w.mainTip}]

\* The orphans that wait for parent, in the order they came.
Waiting(w, parent) == IF parent \in DOMAIN w.orphans THEN w.orphans[parent] ELSE << >>

\* _store_orphan_block
StoreOrphan(w, hash, parent) ==
    IF hash \in w.orphanHashes
    THEN w
    ELSE [w EXCEPT !.orphanHashes = @ \cup {hash},
                   !.orphans = With(@, parent, Append(Waiting(w, parent), hash))]

\* Mutant of Accepted: automine is told before the block is in.
AcceptedToldFirst(w, hash, block, applied) ==
    IF private
    THEN TellAutomine(Forget(StoredIn(w, hash, block, applied), hash), hash)
    ELSE Forget(StoredIn(TellAutomine(w, hash), hash, block, applied), hash)

\* A block that is accepted.  The pool is reconciled between the tips the
\* node works on, by add_block_result if that is the main tip and after it if
\* it is private; a synced block leaves it to the end of its chunk.
Accepted(w, hash, block, applied) ==
    TellAutomine(Forget(StoredIn(w, hash, block, applied), hash), hash)

ReconciledIf(reconcile, before, after) ==
    IF reconcile THEN Reconcile(after, StateTip(before), StateTip(after)) ELSE after

\* A block by what add_block_result says of it, without its descendants.
OfferedAs(status, w, hash, block, applied, synced) ==
    [ accepted |-> status = "accepted",
      w |-> CASE status = "accepted" ->
                    ReconciledIf(~synced, w, Accepted(w, hash, block, applied))
              [] status = "missing_parent" -> StoreOrphan(w, hash, block.previous_hash)
              [] OTHER -> Forget(w, hash) ]

OfferedWith(w, hash, block, applied, synced) ==
    OfferedAs(Status(w, hash, block, applied), w, hash, block, applied, synced)

Offered(w, hash, block, synced) == OfferedWith(w, hash, block, AppliedTo(w, block), synced)

Retried(run, hash, offered) ==
    [ w |-> offered.w,
      stack |-> IF offered.accepted THEN Append(run.stack, hash) ELSE run.stack ]

WithoutParent(w, parent) ==
    [w EXCEPT !.orphans = [p \in DOMAIN @ \ {parent} |-> @[p]]]

Retry(run, hash, synced) ==
    Retried(run, hash, Offered(run.w, hash, PeerBlocks[hash], synced))

\* The orphans that wait for the last parent of the stack, one after the other.
PopParent(run, parent, synced) ==
    LET waiting == Waiting(run.w, parent)
        tried[n \in 0 .. Len(waiting)] ==
            IF n = 0
            THEN [w |-> WithoutParent(run.w, parent), stack |-> Front(run.stack)]
            ELSE Retry(tried[n - 1], waiting[n], synced)
    IN  tried[Len(waiting)]

\* Mutant of ResolveOrphans: only the children of the block are looked at.
ResolveChildren(w, hash, synced) ==
    PopParent([w |-> w, stack |-> <<hash>>], hash, synced).w

\* _resolve_orphan_descendants, _resolve_synced_orphan_descendants
ResolveOrphans(w, hash, synced) ==
    LET run[n \in 0 .. Cardinality(w.orphanHashes) + 1] ==
            CASE n = 0                     -> [w |-> w, stack |-> <<hash>>]
              [] n > 0 /\ run[n - 1].stack = << >> -> run[n - 1]
              [] OTHER -> PopParent(run[n - 1], Last(run[n - 1].stack), synced)
    IN  run[Cardinality(w.orphanHashes) + 1].w

\* _accept_or_store_block, _accept_or_store_sync_block
WithDescendants(offered, hash, synced) ==
    IF offered.accepted
    THEN [offered EXCEPT !.w = ResolveOrphans(@, hash, synced)]
    ELSE offered

AcceptOrStore(w, hash, block, synced) ==
    WithDescendants(Offered(w, hash, block, synced), hash, synced)

\* Peers build on a block of this node only when they have it.
MayArrive(hash) == PeerBlocks[hash].previous_hash \in DOMAIN PeerBlocks \cup
                       {NoHash, GenesisHash} \cup sent

----------------------------------------------------------------------------
(* The file: write_blockchain_state, load_blockchain_state.                *)

NoFile == [chain |-> << >>, blocks |-> << >>, pending |-> << >>]

\* Mutant of FileOf: the pool as it was before the handler.
FileOfOldPool(w) ==
    LET chain == ChainTo(w.blocks, w.mainTip)
    IN  [chain |-> chain, blocks |-> [h \in ToSet(chain) |-> w.blocks[h]], pending |-> pending]

\* The main chain and the pool.
FileOf(w) ==
    LET chain == ChainTo(w.blocks, w.mainTip)
    IN  [chain |-> chain, blocks |-> [h \in ToSet(chain) |-> w.blocks[h]], pending |-> w.pending]

Save(w) == saved' = FileOf(w)

EmptyNode == [ blocks |-> << >>, states |-> << >>, mainTip |-> NoHash, pending |-> << >>,
               orphans |-> << >>, orphanHashes |-> {}, privateTip |-> NoHash, cancel |-> FALSE ]

GenesisBlock == [ block_id |-> 0, previous_hash |-> NoHash, transactions |-> << >>,
                  work |-> GenesisDifficultyBits ]

\* _ensure_genesis_block
FreshNode ==
    StoredIn(EmptyNode, GenesisHash, GenesisBlock, AppliedTo(EmptyNode, GenesisBlock))

\* The blocks of a file on an empty chain, each of which must be accepted.
LoadBlock(loaded, hash, block, applied) ==
    [ ok |-> loaded.ok /\ Status(loaded.w, hash, block, applied) = "accepted",
      w  |-> StoredIn(loaded.w, hash, block, applied) ]

LoadNext(loaded, hash, block) == LoadBlock(loaded, hash, block, AppliedTo(loaded.w, block))

LoadedBlocks(file) ==
    LET loaded[n \in 0 .. Len(file.chain)] ==
            IF n = 0
            THEN [ok |-> TRUE, w |-> EmptyNode]
            ELSE LoadNext(loaded[n - 1], file.chain[n], file.blocks[file.chain[n]])
    IN  loaded[Len(file.chain)]

\* Then its pool on the main tip: load_blockchain_state raises unless all of
\* it applies.
WithPool(loaded, txs) ==
    [ ok |-> /\ loaded.ok
             /\ PoolOn(txs, StateIn(loaded.w, loaded.w.mainTip)).ok,
      w  |-> [loaded.w EXCEPT !.pending = txs] ]

Loaded(file) == WithPool(LoadedBlocks(file), file.pending)

\* _load_persisted_blockchain: a file that does not load is ignored.
StartedFrom(loaded) ==
    IF loaded.ok /\ loaded.w.blocks # << >> THEN loaded.w ELSE FreshNode

Started(file) == StartedFrom(Loaded(file))

----------------------------------------------------------------------------
(* Handlers of the event loop.                                             *)

NodeInit ==
    /\ private \in BOOLEAN
    /\ blocks = FreshNode.blocks /\ states = FreshNode.states
    /\ mainTip = GenesisHash /\ pending = << >>
    /\ orphans = << >> /\ orphanHashes = {}
    /\ privateTip = NoHash
    /\ candidate = NoBlock
    /\ miner = OffMiner
    /\ sent = {}
    /\ saved = NoFile
    /\ unsaved = 0
    /\ deferred = FALSE
    /\ restarts = 0

\* The state after a handler, written to the file or not.
Settle(w, save) ==
    /\ Become(w)
    /\ miner' = [miner EXCEPT !.cancel = w.cancel]
    /\ IF save THEN Save(w) ELSE UNCHANGED saved

SettleBlock(offered) == Settle(offered.w, offered.accepted)

\* _handle_incoming_block
HandleBlock(hash) ==
    /\ MayArrive(hash)
    /\ SettleBlock(AcceptOrStore(Touched(Now), hash, PeerBlocks[hash], FALSE))
    /\ UNCHANGED <<candidate, private, sent, unsaved, deferred, restarts>>

WithOffered(acc, offered) == [w |-> offered.w, accepted |-> acc.accepted \/ offered.accepted]

\* A block of a chunk; one that is stored is passed over.
Import(acc, hash) ==
    IF hash \in DOMAIN acc.w.blocks
    THEN acc
    ELSE WithOffered(acc, AcceptOrStore(acc.w, hash, PeerBlocks[hash], TRUE))

\* The blocks of a chunk in order.
Imported(w, chunk) ==
    LET imported[n \in 0 .. Len(chunk)] ==
            IF n = 0
            THEN [w |-> w, accepted |-> FALSE]
            ELSE Import(imported[n - 1], chunk[n])
    IN  imported[Len(chunk)]

\* Mutant of ReconcileSynced: from the tip the import left behind.
ReconcileFromNewTip(before, after) == Reconcile(after, StateTip(after), StateTip(after))

\* _reconcile_pending_transactions_after_sync
ReconcileSynced(before, after) == Reconcile(after, StateTip(before), StateTip(after))

\* _handle_chain_response: the pool is reconciled once, and the file is left to
\* the end of the sync while a fast sync is active.
SettleChain(result, activeFastSync) ==
    /\ Settle(IF result.accepted THEN ReconcileSynced(Now, result.w) ELSE result.w,
              result.accepted /\ ~activeFastSync)
    /\ deferred' = (deferred \/ (result.accepted /\ activeFastSync))

HandleChain(chunk, activeFastSync) ==
    /\ \A i \in DOMAIN chunk : MayArrive(chunk[i])
    /\ SettleChain(Imported(Touched(Now), chunk), activeFastSync)
    /\ UNCHANGED <<candidate, private, sent, unsaved, restarts>>

\* Mutant of HandleSyncComplete: the file is not written.
SyncCompleteUnsaved ==
    /\ deferred
    /\ deferred' = FALSE
    /\ UNCHANGED <<vars, private, privateTip, orphans, orphanHashes, miner, sent, saved, unsaved,
                   restarts>>

\* _handle_chain_sync_complete
HandleSyncComplete ==
    /\ deferred
    /\ deferred' = FALSE
    /\ Save(Now)
    /\ UNCHANGED <<vars, private, privateTip, orphans, orphanHashes, miner, sent, unsaved,
                   restarts>>

\* _handle_incoming_transaction, and a transaction of the node's own.
Appends(tx, pool) == pool.ok /\ CanApply(tx, pool.ledger)

HandleTransaction(tx) ==
    /\ Len(pending) < MaxPending
    /\ ~IsReward(tx)
    /\ Appends(tx, PendingOn(StateTip(Now)))
    /\ Settle([Touched(Now) EXCEPT !.pending = Append(@, tx)], TRUE)
    /\ UNCHANGED <<candidate, private, sent, unsaved, deferred, restarts>>

----------------------------------------------------------------------------
(* The automine loop, and its thread, which mines with                     *)
(* mine_pending_transactions.                                              *)

\* start_automine
StartAutomine ==
    /\ miner.at = "off"
    /\ Become(Touched(Now))
    /\ miner' = [OffMiner EXCEPT !.at = "loop"]
    /\ UNCHANGED <<candidate, private, sent, saved, unsaved, deferred, restarts>>

\* stop_automine
StopAutomine ==
    /\ miner.at # "off" /\ ~miner.stop
    /\ miner' = [miner EXCEPT !.stop = TRUE, !.cancel = TRUE]
    /\ UNCHANGED <<vars, private, privateTip, orphans, orphanHashes, sent, saved, unsaved,
                   deferred, restarts>>

\* The head of the loop: the tip is read, the thread is on its way.
BeginSearch ==
    /\ miner.at = "loop" /\ ~miner.stop
    /\ Height(StateTip(Now)) < MaxHeight
    /\ Become(Touched(Now))
    /\ miner' = [miner EXCEPT !.at = "started", !.tip = StateTip(Now)]
    /\ UNCHANGED <<candidate, private, sent, saved, unsaved, deferred, restarts>>

\* The thread selects from the pool as it finds it and the search begins.
\* The workers' search resets the cancel flag there, the python search does not.
Select ==
    /\ miner.at = "started"
    /\ candidate' = MinedBlock(Wallet, miner.tip)
    /\ \E cancel \in {FALSE, miner.cancel} :
          miner' = [miner EXCEPT !.at = "searching", !.cancel = cancel]
    /\ UNCHANGED <<chainVars, private, privateTip, orphans, orphanHashes, sent, saved, unsaved,
                   deferred, restarts>>

\* A block nobody else has: its nonce and time are new.
IsNewHash(hash) ==
    hash \in Hashes \ (DOMAIN PeerBlocks \cup {GenesisHash} \cup Stored \cup sent
                       \cup DOMAIN saved.blocks)

\* The nonce is found; the thread adds the block and, unless the tip is
\* private, reconciles the pool.  A block that is refused ends automine.
AddFound(status, w, hash) ==
    IF status = "accepted"
    THEN Become(w) /\ miner' = [miner EXCEPT !.at = "found", !.hash = hash]
    ELSE miner' = OffMiner /\ UNCHANGED <<chainVars, orphans, orphanHashes, privateTip>>

FindBlockWith(hash, applied) ==
    AddFound(Status(Now, hash, candidate, applied),
             ReconciledIf(~private, Now, StoredIn(Now, hash, candidate, applied)), hash)

FindBlock(hash) ==
    /\ miner.at = "searching"
    /\ IsNewHash(hash)
    /\ FindBlockWith(hash, AppliedTo(Now, candidate))
    /\ candidate' = NoBlock
    /\ UNCHANGED <<private, sent, saved, unsaved, deferred, restarts>>

\* Mutant of PersistProgress: the file waits for more blocks than it should.
PersistProgressLate(w) ==
    IF PersistInterval # 0 /\ unsaved >= PersistInterval
    THEN unsaved' = 0 /\ Save(w)
    ELSE unsaved' = unsaved + 1 /\ UNCHANGED saved

\* _save_mined_block_progress
PersistProgress(w) ==
    IF PersistInterval # 0 /\ unsaved + 1 >= PersistInterval
    THEN unsaved' = 0 /\ Save(w)
    ELSE unsaved' = unsaved + 1 /\ UNCHANGED saved

\* _record_local_mining_tip
RecordTip(w, hash) == IF private THEN [w EXCEPT !.privateTip = hash] ELSE w

\* _reconcile_pending_transactions_for_state_tip
ReconcileFrom(previous, w) == IF private THEN Reconcile(w, previous, StateTip(w)) ELSE w

Proceed(w) == Become(w) /\ PersistProgress(w)

\* Back in the loop: the private tip, the pool, the file, the broadcast.
ResumeLoop ==
    /\ miner.at = "found"
    /\ Proceed(ReconcileFrom(miner.tip, RecordTip(Now, miner.hash)))
    /\ sent' = sent \cup {miner.hash}
    /\ miner' = [miner EXCEPT !.at = "loop", !.hash = NoHash]
    /\ UNCHANGED <<candidate, private, deferred, restarts>>

\* ProofOfWorkCancelled: once more on the newer tip, unless it is to stop.
SearchCancelled ==
    /\ miner.at = "searching" /\ miner.cancel
    /\ candidate' = NoBlock
    /\ miner' = IF miner.stop THEN OffMiner ELSE [OffMiner EXCEPT !.at = "loop"]
    /\ UNCHANGED <<chainVars, private, privateTip, orphans, orphanHashes, sent, saved, unsaved,
                   deferred, restarts>>

EndAutomine ==
    /\ miner.at = "loop" /\ miner.stop
    /\ miner' = OffMiner
    /\ UNCHANGED <<vars, private, privateTip, orphans, orphanHashes, sent, saved, unsaved,
                   deferred, restarts>>

----------------------------------------------------------------------------
(* Restarts.                                                               *)

RestartFrom(file) ==
    /\ restarts < MaxRestarts[private]
    /\ restarts' = restarts + 1
    /\ Become(Started(file))
    /\ candidate' = NoBlock
    /\ miner' = OffMiner
    /\ unsaved' = 0
    /\ deferred' = FALSE
    /\ UNCHANGED <<private, sent>>

\* The process ends anywhere and is started again.
Crash == RestartFrom(saved) /\ UNCHANGED saved

\* stop, once automine has ended, and start.
Shutdown == miner.at = "off" /\ Save(Now) /\ RestartFrom(FileOf(Now))

HandlerStep ==
    \/ \E hash \in DOMAIN PeerBlocks : HandleBlock(hash)
    \/ \E chunk \in Chunks, activeFastSync \in BOOLEAN : HandleChain(chunk, activeFastSync)
    \/ HandleSyncComplete
    \/ \E tx \in Transactions : HandleTransaction(tx)

AutomineStep ==
    \/ StartAutomine
    \/ StopAutomine
    \/ BeginSearch
    \/ Select
    \/ \E hash \in Hashes : FindBlock(hash)
    \/ ResumeLoop
    \/ SearchCancelled
    \/ EndAutomine

NodeNext == HandlerStep \/ AutomineStep \/ Crash \/ Shutdown
NodeSpec == NodeInit /\ [][NodeNext]_allVars

----------------------------------------------------------------------------
(* Properties.                                                             *)

Listed == UNION {ToSet(orphans[p]) : p \in DOMAIN orphans}

\* A block that came before its parent is kept under its parent's hash, once,
\* and only as long as that parent is missing: no arrival, of a block, of a
\* chunk or of a whole branch of orphans, leaves behind one that could be tried.
OrphansWait ==
    /\ DOMAIN orphans \cap Stored = {}
    /\ orphanHashes = Listed
    /\ Listed \cap Stored = {}
    /\ \A p \in DOMAIN orphans :
          /\ IsInjective(orphans[p])
          /\ \A h \in ToSet(orphans[p]) : PeerBlocks[h].previous_hash = p

\* A node that is started again has the chain and the pool it saved.
FileLoads == Loaded(saved).ok

\* That holds of a node that mines in public, at every point of its handlers
\* and of its mining thread.
PublicFileLoads == ~private => FileLoads

\* The blocks of the main chain that are not in the file.
Unwritten == ToSet(ChainTo(blocks, mainTip)) \ (DOMAIN saved.blocks \cup {GenesisHash})

\* What a crash takes from the main chain is never more than the blocks mined
\* since the last of every PersistInterval and the one just found, whatever
\* was received and however the chain was reorganised meanwhile, unless a sync
\* goes on or the file is left to the shutdown.
CrashLosesFewBlocks ==
    ~private /\ ~deferred /\ PersistInterval # 0 =>
        Cardinality(Unwritten) <= PersistInterval - (IF miner.at = "found" THEN 0 ELSE 1)

Payments(tree, tip) ==
    {tx \in ToSet(BranchTransactions(tree, tip, NoHash)) : ~IsReward(tx)}

\* A crash takes no transaction: one that was mined in a block that is not in
\* the file is in the pool of the file.
CrashLosesNoTransaction ==
    ~private /\ ~deferred =>
        Payments(blocks, mainTip) \cup ToSet(pending)
            \subseteq ToSet(saved.pending)
                      \cup Payments(saved.blocks, IF saved.chain = << >> THEN NoHash
                                                  ELSE Last(saved.chain))

\* Whatever handler makes another tip the one to mine on, by a block, a chunk
\* or an orphan that found its parent, a search under way is told in that step.
StaleSearchIsCancelled ==
    [][(/\ miner.at = "searching" /\ miner'.at = "searching"
        /\ StateTip(Now)' # StateTip(Now))
       => miner'.cancel]_allVars

\* The block that arrives is one that orphans wait for.
WakesOrphans == \E hash \in DOMAIN PeerBlocks \cap DOMAIN orphans : HandleBlock(hash)

\* No chunk of a sync, which touches the pool only at its end, no mined block
\* and no block that arrives before its children loses a payment: if a
\* transaction of the chain or the pool before a step could be mined after it,
\* the pool still holds one of its sender.  It is not promised of a block that
\* orphans wait for: _resolve_orphan_descendants reconciles block by block, and
\* what one of them drops from the pool, because it does not apply to that
\* block, is gone although it may apply to the next (LostPayment.cfg).
NodeKeepsTransactions ==
    [][~private /\ restarts' = restarts /\ ~WakesOrphans =>
          \A tx \in Payments(blocks, mainTip) \cup ToSet(pending) :
              (/\ tx \notin Payments(blocks', mainTip')
               /\ CanApply(tx, (StateAt(mainTip).ledger)'))
              => \E other \in ToSet(pending') : other.sender = tx.sender]_allVars

=============================================================================
