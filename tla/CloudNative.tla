---------------------------- MODULE CloudNative ----------------------------
(***************************************************************************)
(* The burst miner of a cloud node: a worker thread that mines reward-only *)
(* blocks one upon the other without waiting for the node                  *)
(* (core/cloud_native_automine.py), the queue of two events between them,  *)
(* and the loop of node/node.py that takes the blocks in, without checking *)
(* their hashes as long as nobody is connected.                            *)
(*                                                                         *)
(* A block is its number in mined, 0 is what the node had at its start.    *)
(* sound says that its hash is the hash of its contents; the worker takes  *)
(* the hash its backend returns.                                           *)
(***************************************************************************)
EXTENDS Integers, SequencesExt

CONSTANTS
    Settings,      \* the environments a node is started in
    MaxBlocks,     \* bound of mined
    MaxPeerBlocks, \* bound, of the blocks of others among them
    MaxStarts,     \* bound, of start_automine
    MaxDials       \* bound, of connections, those of others included

ASSUME SettingsAssumption ==
    \A s \in Settings :
        /\ s.batch \in Nat \ {0}        \* UNCCOIN_CLOUD_NATIVE_BATCH_BLOCKS
        /\ s.verify \in Nat             \* UNCCOIN_CLOUD_NATIVE_FULL_VERIFY_BLOCKS, 0 is off
        /\ s.trust \in BOOLEAN          \* UNCCOIN_CLOUD_NATIVE_TRUST_WORKER_HASH
        /\ s.persist \in Nat            \* mined_block_persist_interval
        /\ s.backend \in {"auto", "python", "native", "gpu"}
        /\ s.incoming \in BOOLEAN       \* whether others dial this node

VARIABLES
    settings,
    mined,       \* the blocks of all: [parent, height, own, sound, pays]
    chain,       \* see InitialChain
    saved,       \* the blocks in the file
    unsaved,     \* _mined_blocks_since_persist
    connection,  \* "none", "dialing" or "open"
    sent,        \* own blocks that were broadcast to the peer
    worker,      \* the thread: see NewWorker
    queue,       \* result_queue
    stopEvent,   \* stop_event
    powCancel,   \* the flag of request_pow_cancel
    loop,        \* the task: see OffLoop
    stop,        \* _automine_stop_requested
    node,        \* "up", "stopping", "verifying" (in stop) or "stopped"
    starts, dials  \* bounds

fileVars == <<saved, unsaved>>
netVars == <<connection, sent, dials>>
threadVars == <<worker, queue>>
flagVars == <<stopEvent, powCancel, stop>>
nodeVars == <<node, starts>>
vars == <<settings, mined, chain, fileVars, netVars, threadVars, flagVars, loop, nodeVars>>

\* tip is main_tip_hash, unverified _cloud_native_fast_blocks_since_verify,
\* submitted whether the wallet has made its transaction.
InitialChain == [stored |-> {}, tip |-> 0, unverified |-> 0, submitted |-> FALSE]

\* at: "search", "put" while outbox goes to the queue, "head" at the head of
\* its loop, "done".  then is where it goes on, made are its blocks.
NewWorker(tip) ==
    [at |-> "search", tip |-> tip, batch |-> << >>, outbox |-> << >>, then |-> "head",
     made |-> {}]

NoWorker == [NewWorker(0) EXCEPT !.at = "done"]

\* at: "off", "loop" the head of _cloud_native_automine_loop, "test" the head
\* of the while loop over the events, "get" waiting for one, "handle" with its
\* blocks, "joining" the worker.  tip is _current_automine_tip_hash (-1 is
\* None), end why the loop over the events was left.
OffLoop == [at |-> "off", kind |-> "none", blocks |-> << >>, tip |-> -1, end |-> "none"]

Init ==
    /\ settings \in Settings
    /\ mined = << >>
    /\ chain = InitialChain
    /\ saved = {} /\ unsaved = 0
    /\ connection = "none" /\ sent = {} /\ dials = 0
    /\ worker = NoWorker /\ queue = << >>
    /\ stopEvent = FALSE /\ powCancel = FALSE /\ stop = FALSE
    /\ loop = OffLoop
    /\ node = "up" /\ starts = 0

----------------------------------------------------------------------------
(* The chain.                                                              *)

HeightOf(b) == IF b = 0 THEN 0 ELSE mined[b].height

Ancestry == LET up[b \in 0 .. Len(mined)] == IF b = 0 THEN {} ELSE {b} \cup up[mined[b].parent]
            IN  up

\* The blocks of the main chain of c after the first, blockchain.blocks.
MainChain(c) == Ancestry[c.tip]

\* The pool: the transaction of the wallet, unless the main chain has it.
PoolIsEmpty(c) == c.submitted => \E b \in MainChain(c) : mined[b].pays

\* verify_chain: every stored block is checked again.  The tip stays the tip
\* (VerifyAgrees of Blockchain).
VerifyChain(c) == \A b \in c.stored : mined[b].sound

\* add_block_result once it accepts b.
Stored(c, b) ==
    [c EXCEPT !.stored = @ \cup {b},
              !.tip = IF HeightOf(b) > HeightOf(@) THEN b ELSE @]

----------------------------------------------------------------------------
(* Blocks of the worker.                                                   *)

\* Mutant of CanDeferHashCheck: what the launcher asks for is all that counts.
DeferIfTrusted == settings.trust

\* _can_defer_cloud_native_worker_hash_check
CanDeferHashCheck == settings.trust /\ connection # "open"

\* Mutant of Counted: a verification that fails leaves the counter at zero.
CountedFromZero(c, b) ==
    LET n == c.unverified + 1
        d == [Stored(c, b) EXCEPT !.unverified = n]
    IN  CASE settings.verify = 0 \/ n < settings.verify -> [chain |-> d, ok |-> TRUE]
          [] OTHER -> IF VerifyChain(d)
                      THEN [chain |-> [d EXCEPT !.unverified = 0], ok |-> TRUE]
                      ELSE [chain |-> [c EXCEPT !.unverified = 0], ok |-> FALSE]

\* b is stored and counted, and all blocks are verified when it is time to; if
\* they do not verify, everything is as it was before b.
Counted(c, b) ==
    LET n == c.unverified + 1
        d == [Stored(c, b) EXCEPT !.unverified = n]
    IN  CASE settings.verify = 0 \/ n < settings.verify -> [chain |-> d, ok |-> TRUE]
          [] OTHER -> IF VerifyChain(d)
                      THEN [chain |-> [d EXCEPT !.unverified = 0], ok |-> TRUE]
                      ELSE [chain |-> c, ok |-> FALSE]

\* _fast_accept_cloud_native_mined_block; the reward is the worker's own.
FastAccepted(c, b) ==
    IF mined[b].sound \/ CanDeferHashCheck
    THEN Counted(c, b)
    ELSE [chain |-> c, ok |-> FALSE]

\* The other path of _accept_cloud_native_mined_block: add_block_result.
FullyAccepted(c, b) ==
    IF mined[b].sound
    THEN [chain |-> Stored(c, b), ok |-> TRUE]
    ELSE [chain |-> c, ok |-> FALSE]

\* _can_fast_accept_cloud_native_block
AcceptedOne(c, b) == IF PoolIsEmpty(c) THEN FastAccepted(c, b) ELSE FullyAccepted(c, b)

\* The fast path over a batch, up to the first block that fails.
AcceptedBatch(c, batch) ==
    LET upTo[n \in 0 .. Len(batch)] ==
            IF n = 0 THEN [chain |-> c, ok |-> TRUE]
            ELSE IF upTo[n - 1].ok THEN FastAccepted(upTo[n - 1].chain, batch[n])
                 ELSE upTo[n - 1]
    IN  upTo[Len(batch)]

\* _save_mined_block_progress
SaveProgress(count, c) ==
    IF settings.persist # 0 /\ unsaved + count >= settings.persist
    THEN unsaved' = 0 /\ saved' = MainChain(c)
    ELSE unsaved' = unsaved + count /\ UNCHANGED saved

\* After the blocks are in: the tip that is mined on, the file, the broadcast.
Recorded(blocks, c) ==
    /\ SaveProgress(Len(blocks), c)
    /\ sent' = IF connection = "open" THEN sent \cup ToSet(blocks) ELSE sent

\* The loop over the events is left: the worker is told to stop and, if it is
\* still there, its search is cancelled; join waits for it, up to five seconds.
Leave(end, tip) ==
    /\ loop' = [OffLoop EXCEPT !.at = "joining", !.tip = tip, !.end = end]
    /\ stopEvent' = TRUE
    /\ powCancel' = (powCancel \/ worker.at # "done")
    /\ UNCHANGED <<threadVars, stop>>

\* It goes on with the blocks that are left of the event.
GoOn(rest, tip) ==
    /\ loop' = IF rest = << >> THEN [OffLoop EXCEPT !.at = "test", !.tip = tip]
               ELSE [loop EXCEPT !.kind = "rest", !.blocks = rest, !.tip = tip]
    /\ UNCHANGED <<threadVars, flagVars>>

\* How many of the event's blocks are accepted without an await between them.
Together == IF Len(loop.blocks) > 1 /\ loop.kind = "blocks" /\ PoolIsEmpty(chain)
            THEN Len(loop.blocks) ELSE 1

Accept(blocks, rest) ==
    IF mined[Head(blocks)].parent # chain.tip
    THEN /\ Leave("stale", loop.tip)
         /\ UNCHANGED <<chain, fileVars, sent>>
    ELSE \E r \in {IF Len(blocks) = 1 THEN AcceptedOne(chain, Head(blocks))
                   ELSE AcceptedBatch(chain, blocks)} :
            /\ chain' = r.chain
            /\ IF r.ok
               THEN Recorded(blocks, r.chain) /\ GoOn(rest, Last(blocks))
               ELSE UNCHANGED <<fileVars, sent>> /\ Leave("error", loop.tip)

\* _accept_cloud_native_mined_blocks.  Blocks that are broadcast one by one
\* leave time to peers between them (kind "rest").
AcceptBlocks ==
    /\ loop.at = "handle" /\ loop.kind \in {"blocks", "rest"}
    /\ \E n \in {Together} :
          Accept(SubSeq(loop.blocks, 1, n), SubSeq(loop.blocks, n + 1, Len(loop.blocks)))
    /\ UNCHANGED <<settings, mined, connection, dials, nodeVars>>

----------------------------------------------------------------------------
(* The task: _cloud_native_automine_loop, _run_cloud_native_automine_worker. *)

StartAutomine ==
    /\ node = "up" /\ loop.at = "off"
    /\ starts < MaxStarts /\ starts' = starts + 1
    /\ loop' = [OffLoop EXCEPT !.at = "loop"]
    /\ stop' = FALSE
    /\ UNCHANGED <<settings, mined, chain, fileVars, netVars, threadVars, stopEvent, powCancel,
                   node>>

\* stop_automine
StopAutomine ==
    /\ node = "up" /\ loop.at # "off"
    /\ stop' = TRUE /\ powCancel' = TRUE
    /\ UNCHANGED <<settings, mined, chain, fileVars, netVars, threadVars, stopEvent, loop,
                   nodeVars>>

\* The end of the task.
Finish ==
    /\ loop' = [OffLoop EXCEPT !.end = loop.end]
    /\ powCancel' = FALSE /\ stop' = FALSE
    /\ UNCHANGED <<threadVars, stopEvent>>

\* Mutant of BeginRun: a stop that came before the run is forgotten.
BeginRunAfresh ==
    /\ worker' = NewWorker(chain.tip) /\ queue' = << >>
    /\ stopEvent' = FALSE
    /\ loop' = [OffLoop EXCEPT !.at = "test", !.tip = chain.tip]
    /\ stop' = FALSE
    /\ UNCHANGED powCancel

\* A new worker on the present tip, with a queue and a stop_event of its own;
\* an old one that still searches is not heard of again.
BeginRun ==
    IF stop
    THEN Finish
    ELSE /\ worker' = NewWorker(chain.tip) /\ queue' = << >>
         /\ stopEvent' = FALSE
         /\ loop' = [OffLoop EXCEPT !.at = "test", !.tip = chain.tip]
         /\ UNCHANGED <<powCancel, stop>>

LoopHead ==
    /\ loop.at = "loop"
    /\ BeginRun
    /\ UNCHANGED <<settings, mined, chain, fileVars, netVars, nodeVars>>

\* Mutant of EventsExpected: what a worker that ended left in the queue is lost.
WorkerAlive == worker.at # "done"

\* The condition of the while loop over the events.
EventsExpected == worker.at # "done" \/ queue # << >>

TestLoop ==
    /\ loop.at = "test"
    /\ IF EventsExpected
       THEN /\ stopEvent' = (stopEvent \/ stop)
            /\ powCancel' = (powCancel \/ stop)
            /\ loop' = [loop EXCEPT !.at = "get"]
            /\ UNCHANGED <<threadVars, stop>>
       ELSE Leave("ended", loop.tip)
    /\ UNCHANGED <<settings, mined, chain, fileVars, netVars, nodeVars>>

\* result_queue.get, in a thread: an event, or none after a quarter of a second.
GetEvent ==
    /\ loop.at = "get" /\ queue # << >>
    /\ queue' = Tail(queue)
    /\ loop' = [loop EXCEPT !.at = "handle", !.kind = Head(queue).kind,
                            !.blocks = Head(queue).blocks]
    /\ UNCHANGED <<settings, mined, chain, fileVars, netVars, worker, flagVars, nodeVars>>

GetTimesOut ==
    /\ loop.at = "get" /\ queue = << >>
    /\ loop' = [loop EXCEPT !.at = "test"]
    /\ UNCHANGED <<settings, mined, chain, fileVars, netVars, threadVars, flagVars, nodeVars>>

\* The event "cancelled", and "error", which is raised.
HandleEnd ==
    /\ loop.at = "handle" /\ loop.kind \in {"cancelled", "error"}
    /\ Leave(CASE loop.kind = "error" -> "error"
               [] loop.kind = "cancelled" /\ stop -> "ended"
               [] OTHER               -> "cancelled", loop.tip)
    /\ UNCHANGED <<settings, mined, chain, fileVars, netVars, nodeVars>>

\* join returns, the worker done or not; restart_requested begins the next run.
Joined ==
    /\ loop.at = "joining"
    /\ IF loop.end \in {"stale", "cancelled"} /\ ~stop
       THEN /\ loop' = [loop EXCEPT !.at = "loop"]
            /\ powCancel' = FALSE
            /\ UNCHANGED <<threadVars, stopEvent, stop>>
       ELSE Finish
    /\ UNCHANGED <<settings, mined, chain, fileVars, netVars, nodeVars>>

----------------------------------------------------------------------------
(* The thread: mine_reward_only_blocks.                                    *)

ThreadOnly(newWorker, newQueue) ==
    /\ worker' = newWorker /\ queue' = newQueue
    /\ UNCHANGED <<settings, chain, fileVars, netVars, flagVars, loop, nodeVars>>

\* The thread has ended.
Done(w) == [NoWorker EXCEPT !.made = w.made]

Event(kind, blocks) == [kind |-> kind, blocks |-> blocks]

\* The search on the worker's tip has a result: a block of the next height.
\* One that comes after the stop goes out with those before it, if there is
\* room (put_nowait).
FindBlock(sound) ==
    /\ worker.at = "search" /\ Len(mined) < MaxBlocks
    /\ mined' = Append(mined, [parent |-> worker.tip, height |-> HeightOf(worker.tip) + 1,
                               own |-> TRUE, sound |-> sound, pays |-> FALSE])
    /\ LET b == Len(mined) + 1
           found == [worker EXCEPT !.tip = b, !.batch = Append(@, b), !.made = @ \cup {b}]
           out == Event("blocks", found.batch)
       IN  IF stopEvent
           THEN ThreadOnly(Done(found),
                           IF Len(queue) < 2 THEN Append(queue, out) ELSE queue)
           ELSE IF Len(found.batch) < settings.batch
                THEN ThreadOnly([found EXCEPT !.at = "head"], queue)
                ELSE ThreadOnly([found EXCEPT !.at = "put", !.outbox = <<out>>,
                                              !.batch = << >>, !.then = "head"], queue)

\* The head of its loop: after a stop it ends, whatever it has in its batch.
NextSearch ==
    /\ worker.at = "head"
    /\ ThreadOnly(IF stopEvent THEN Done(worker) ELSE [worker EXCEPT !.at = "search"], queue)
    /\ UNCHANGED mined

BatchOut == IF worker.batch = << >> THEN << >> ELSE <<Event("blocks", worker.batch)>>

\* ProofOfWorkCancelled: the batch, full or not, then "cancelled".
SearchCancelled ==
    /\ worker.at = "search" /\ powCancel
    /\ IF stopEvent
       THEN ThreadOnly(Done(worker),
                       IF Len(queue) < 2 THEN queue \o BatchOut ELSE queue)
       ELSE ThreadOnly([worker EXCEPT !.at = "put", !.then = "done",
                                      !.outbox = BatchOut \o <<Event("cancelled", << >>)>>],
                       queue)
    /\ UNCHANGED mined

\* mine_serialized_block_prefix_resident and cuda_pow: what is chosen
\* automatically falls back on the search in Python, which does not fail.
SearchMayFail == settings.backend \in {"native", "gpu"}

\* Any other error: the batch, then the error.
SearchFails ==
    /\ worker.at = "search" /\ SearchMayFail
    /\ ThreadOnly([worker EXCEPT !.at = "put", !.then = "done",
                                 !.outbox = BatchOut \o <<Event("error", << >>)>>],
                  queue)
    /\ UNCHANGED mined

\* _put_event: it waits for room, and gives up when it is told to stop.  A put
\* that already waits may still succeed then.
PutEvent ==
    /\ worker.at = "put" /\ Len(queue) < 2
    /\ LET rest == Tail(worker.outbox)
       IN  ThreadOnly(CASE rest # << >> -> [worker EXCEPT !.outbox = rest]
                        [] rest = << >> /\ worker.then = "done" -> Done(worker)
                        [] OTHER -> [worker EXCEPT !.outbox = rest, !.at = "head"],
                      Append(queue, Head(worker.outbox)))
    /\ UNCHANGED mined

PutGivesUp ==
    /\ worker.at = "put" /\ stopEvent
    /\ ThreadOnly(Done(worker), queue)
    /\ UNCHANGED mined

----------------------------------------------------------------------------
(* The node's other handlers.                                              *)

Handlers == node \in {"up", "stopping"}

\* _verify_cloud_native_fast_chain_for_exposure: whether it raises nothing.
ExposureVerifies == chain.unverified = 0 \/ VerifyChain(chain)

\* connect_to_peer: the chain is verified, then the connection is opened.
Dial ==
    /\ Handlers /\ connection = "none" /\ dials < MaxDials
    /\ ExposureVerifies
    /\ chain' = [chain EXCEPT !.unverified = 0]
    /\ connection' = "dialing" /\ dials' = dials + 1
    /\ UNCHANGED <<settings, mined, fileVars, sent, threadVars, flagVars, loop, nodeVars>>

\* What was dialed answers or does not; a peer dials; a connection ends.
SetConnection(from, to) ==
    /\ Handlers /\ connection = from /\ connection' = to
    /\ UNCHANGED <<settings, mined, chain, fileVars, sent, threadVars, flagVars, loop, nodeVars>>

DialEnds == \E to \in {"open", "none"} : SetConnection("dialing", to) /\ UNCHANGED dials

PeerDials ==
    /\ settings.incoming /\ dials < MaxDials /\ dials' = dials + 1
    /\ SetConnection("none", "open")

Disconnected == SetConnection("open", "none") /\ UNCHANGED dials

\* create_signed_transaction and the like, by the node's API.
SubmitTransaction ==
    /\ node = "up" /\ ~chain.submitted
    /\ chain' = [chain EXCEPT !.submitted = TRUE]
    /\ saved' = MainChain(chain)
    /\ UNCHANGED <<settings, mined, unsaved, netVars, threadVars, flagVars, loop, nodeVars>>

\* _cancel_stale_automine_if_needed
CancelIfStale(c) == powCancel' = (powCancel \/ (loop.tip # -1 /\ loop.tip # c.tip))

\* A block a peer has mined, on a chain it accepts, is taken in by
\* _accept_or_store_block, saved, and tells automine.
ReceiveBlock ==
    /\ Handlers /\ connection = "open" /\ Len(mined) < MaxBlocks
    /\ Cardinality({b \in DOMAIN mined : ~mined[b].own}) < MaxPeerBlocks
    /\ \E parent \in chain.stored \cup {0}, pays \in {FALSE, chain.submitted} :
          /\ \A b \in Ancestry[parent] : mined[b].sound
          /\ pays => \A b \in Ancestry[parent] : ~mined[b].pays
          /\ mined' = Append(mined, [parent |-> parent, height |-> HeightOf(parent) + 1,
                                     own |-> FALSE, sound |-> TRUE, pays |-> pays])
          /\ \E c \in {[chain EXCEPT !.stored = @ \cup {Len(mined) + 1},
                           !.tip = IF HeightOf(parent) + 1 > HeightOf(@)
                                   THEN Len(mined) + 1 ELSE @]} :
                /\ chain' = c
                /\ saved' = IF c.tip = chain.tip THEN MainChain(c)
                            ELSE {c.tip} \cup Ancestry[parent]
                /\ CancelIfStale(c)
    /\ UNCHANGED <<settings, unsaved, netVars, threadVars, stopEvent, stop, loop, nodeVars>>

----------------------------------------------------------------------------
(* stop                                                                    *)

\* Automine is stopped and waited for.
BeginStop ==
    /\ node = "up" /\ node' = "stopping"
    /\ IF loop.at = "off" THEN UNCHANGED flagVars
       ELSE stop' = TRUE /\ powCancel' = TRUE /\ UNCHANGED stopEvent
    /\ UNCHANGED <<settings, mined, chain, fileVars, netVars, threadVars, loop, starts>>

\* Mutant of SaveSnapshot: nothing is saved before the chain is verified.
SaveNothing == UNCHANGED saved

\* _save_cloud_native_fast_shutdown_snapshot
SaveSnapshot == saved' = IF chain.unverified = 0 THEN saved ELSE MainChain(chain)

\* The snapshot; the verification may take long enough to be interrupted.
BeginShutdown ==
    /\ node = "stopping" /\ loop.at = "off"
    /\ node' = "verifying"
    /\ SaveSnapshot
    /\ UNCHANGED <<settings, mined, chain, unsaved, netVars, threadVars, flagVars, loop, starts>>

\* The verification, which may raise, and the file; the connections end.
EndShutdown ==
    /\ node = "verifying" /\ node' = "stopped"
    /\ connection' = "none"
    /\ IF ExposureVerifies
       THEN chain' = [chain EXCEPT !.unverified = 0] /\ saved' = MainChain(chain)
       ELSE UNCHANGED <<chain, saved>>
    /\ UNCHANGED <<settings, mined, unsaved, sent, dials, threadVars, flagVars, loop, starts>>

LoopStep == AcceptBlocks \/ LoopHead \/ TestLoop \/ GetEvent \/ GetTimesOut \/ HandleEnd \/ Joined
ThreadStep == NextSearch \/ SearchCancelled \/ PutEvent \/ PutGivesUp

\* A worker's hash is wrong once at most (bound).
Find == \/ FindBlock(TRUE)
        \/ (\A b \in DOMAIN mined : mined[b].sound) /\ FindBlock(FALSE)

Next ==
    \/ LoopStep
    \/ ThreadStep
    \/ Find
    \/ SearchFails
    \/ StartAutomine
    \/ StopAutomine
    \/ Dial
    \/ DialEnds
    \/ PeerDials
    \/ Disconnected
    \/ SubmitTransaction
    \/ ReceiveBlock
    \/ BeginStop
    \/ BeginShutdown
    \/ EndShutdown

\* The event loop and the thread go on; a search need not find anything.
Spec == Init /\ [][Next]_vars /\ WF_vars(LoopStep) /\ WF_vars(ThreadStep)

----------------------------------------------------------------------------
(* Properties.                                                             *)

\* A block the miner sends to a peer has the hash of its contents: the hash of
\* every block is recomputed as soon as a peer is connected, however long it
\* lay in the queue (docs/mining.md).
SentBlocksAreSound == \A b \in sent : mined[b].sound

\* While the counter of unverified blocks is zero the chain is what consensus
\* accepts: then neither a dial nor the shutdown verifies it.
UncountedChainIsSound == chain.unverified = 0 => \A b \in chain.stored : mined[b].sound

\* From the start of the verification at shutdown the file has the chain: an
\* interruption or a failure of the verification loses no mined block.
ShutdownKeepsTheChain ==
    node = "stopped" \/ (node = "verifying" /\ chain.unverified > 0) =>
        saved = MainChain(chain)

\* A run that ends because it was told to, and not for an error or a tip that
\* moved on, has given the node all its worker mined but for one batch.
StopLosesAtMostABatch ==
    loop.end = "ended" => Cardinality(worker.made \ chain.stored) <= settings.batch

\* Automine that is told to stop does stop, wherever the loop, the thread and
\* the queue between them are, though no search finds anything any more.
StopEndsAutomine == stop ~> loop.at = "off"

\* "before opening a peer connection if it has accepted unverified burst
\* blocks" (docs/mining.md): the chain is verified when a connection opens.
PeersMeetAVerifiedChain ==
    [][connection = "dialing" /\ connection' = "open" => chain.unverified = 0]_vars

=============================================================================
