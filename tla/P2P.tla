-------------------------------- MODULE P2P --------------------------------
(***************************************************************************)
(* The P2P servers of several nodes (network/p2p_server.py): connections   *)
(* and how they are named, the handshake, the gossip of blocks and the     *)
(* sync of chains.  Transaction relay is off (mining_only), so there are   *)
(* no messages about the pool.                                             *)
(*                                                                         *)
(* A connection is a TCP stream each way: what one end has sent arrives in *)
(* order, or not at all once an end is closed.  Each end has a task that   *)
(* reads one message, handles it to its end and reads the next; waiting    *)
(* for a buffer to drain or a socket to close is not a step of its own.    *)
(*                                                                         *)
(* A block is a name with a parent; of the Node behind a server there is   *)
(* what its handlers return: which blocks are accepted, wait for a parent  *)
(* or are rejected (module Node has the rest).                             *)
(***************************************************************************)
EXTENDS Integers, FiniteSets, SequencesExt

CONSTANTS
    Nodes,
    NoNode,
    MaxConns,      \* bound: connections that are ever opened
    Blocks,
    NoBlock,       \* the parent of the genesis block
    ParentOf,      \* block -> parent
    ChunkSize,     \* CHAIN_SYNC_CHUNK_SIZE
    Scenarios      \* bounds: the nodes' chains, and what the environment may do

ASSUME NodesAssumption == IsFiniteSet(Nodes) /\ NoNode \notin Nodes
ASSUME ConnsAssumption ==
    /\ MaxConns \in Nat
    /\ NoNode \notin 1 .. MaxConns /\ Nodes \cap (1 .. MaxConns) = {}
ASSUME ChunkSizeAssumption == ChunkSize \in Nat \ {0}
ASSUME ParentAssumption == ParentOf \in [Blocks -> Blocks \cup {NoBlock}]
ASSUME ScenariosAssumption ==
    \A scenario \in Scenarios :
        /\ scenario.start \in [Nodes -> Blocks] /\ scenario.refuses \in [Nodes -> SUBSET Blocks]
        /\ scenario.budget \in [ dials : [Nodes \X Nodes -> Nat], overlap : BOOLEAN,
                                 disconnects : Nat, losses : Nat, raises : Nat, syncs : Nat,
                                 mines : [Nodes -> SUBSET Blocks] ]

Conns == 1 .. MaxConns
NoConn == 0

\* A PeerAddress: the one a node listens at or, at the end that accepted it,
\* the port a connection came from.
Keys == Nodes \cup Conns
NoKey == NoNode

VARIABLES
    node,    \* node -> [active, sync, stored, tip, orphans, seen, refuses]
    conn,    \* connection -> [from, to, waiting, open, chan, reader, serving]
    budget   \* what the environment may still do

vars == <<node, conn, budget>>

\* fast_sync_states: a state that is not active is as good as none, since a
\* new request sets every field.
NoSync == [active |-> FALSE]
NoStream == [next |-> -1]

\* waiting: the ends that have not registered it yet; chan: what is on its way
\* to a node; reader: the key under which a read task handles its messages;
\* serving: the stream that task is busy sending.
Unused == [ from |-> NoNode, to |-> NoNode, waiting |-> {}, open |-> FALSE,
            chan |-> [n \in Nodes |-> << >>], reader |-> [n \in Nodes |-> NoKey],
            serving |-> [n \in Nodes |-> NoStream] ]

Ends(c) == {conn[c].from, conn[c].to} \ {NoNode}
Other(c, n) == IF conn[c].from = n THEN conn[c].to ELSE conn[c].from

----------------------------------------------------------------------------
(* Chains.                                                                 *)

ChainOf ==
    LET chain[b \in Blocks \cup {NoBlock}] ==
            IF b = NoBlock THEN << >> ELSE Append(chain[ParentOf[b]], b)
    IN  chain

HeightOf(b) == Len(ChainOf[b]) - 1

\* The tip is left only for a higher block.
TipAfter(tip, stored) ==
    IF \E b \in stored : HeightOf(b) > HeightOf(tip)
    THEN CHOOSE b \in stored : \A other \in stored : HeightOf(b) >= HeightOf(other)
    ELSE tip

\* on_block and on_chain_response: blocks in a row arrive at the node s.  All
\* that hang together with its chains are accepted, orphans as well, up to those
\* it refuses; what hangs on nothing waits.
Accepted(s, arriving) ==
    {b \in arriving \cup s.orphans :
        ToSet(ChainOf[b]) \ s.stored \subseteq (arriving \cup s.orphans) \ s.refuses}

With(s, arriving, stored) ==
    [s EXCEPT !.stored = stored,
              !.tip = TipAfter(@, stored),
              !.orphans = {b \in @ \cup arriving : ParentOf[b] \notin stored}]

Import(s, blocks) == With(s, ToSet(blocks) \ s.stored,
                          s.stored \cup Accepted(s, ToSet(blocks) \ s.stored))

\* What became of blocks in the node s, given the one it is after.
Took(s, after, blocks) == \E i \in DOMAIN blocks : blocks[i] \in after.stored \ s.stored
Waits(after, blocks) == \E i \in DOMAIN blocks : blocks[i] \in after.orphans
Refused(after, blocks) ==
    \E i \in DOMAIN blocks : blocks[i] \notin after.stored \cup after.orphans

----------------------------------------------------------------------------
(* Messages.                                                               *)

\* _create_handshake_message
Handshake(n, s) == [type |-> "handshake", from |-> n, tip |-> s.tip, height |-> HeightOf(s.tip)]

StreamRequest(start) == [type |-> "chain_stream_request", start |-> start]
ChainRequest(start) == [type |-> "chain_request", start |-> start]
BlockMessage(b) == [type |-> "block", block |-> b]

\* _build_chain_chunk_payload
ChunkOf(chain, start) ==
    LET blocks == SubSeq(chain, start + 1, Min({start + ChunkSize, Len(chain)}))
    IN  [ type |-> "chain_chunk", start |-> start, height |-> Len(chain) - 1, blocks |-> blocks,
          next |-> start + Len(blocks), done |-> start + Len(blocks) >= Len(chain) ]

----------------------------------------------------------------------------
(* What a handler of node n does is a record: the node it leaves, what it   *)
(* sends, the connections it closes, the stream it begins or goes on with,  *)
(* and whether an exception ended it.  raising: the connections whose loss  *)
(* a write of it meets; took: whether it took a message.                    *)

Work(n, key, raising) ==
    [ n |-> n, key |-> key, raising |-> raising, s |-> node[n], out |-> << >>, shut |-> {},
      serve |-> NoStream, failed |-> FALSE, took |-> FALSE ]

\* send_to_peer: a peer without a connection is a ValueError.
Send(w, peer, message) ==
    IF w.s.active[peer] \in {NoConn} \cup w.raising
    THEN [w EXCEPT !.failed = TRUE]
    ELSE [w EXCEPT !.out = Append(@, <<w.s.active[peer], message>>)]

\* _broadcast_to_peers: a peer whose connection is found lost is dropped.
Broadcast(w, message, except) ==
    LET peers == {k \in Keys \ except : w.s.active[k] # NoConn}
        lost == {k \in peers : w.s.active[k] \in w.raising}
    IN  [w EXCEPT !.out = @ \o SetToSeq({<<w.s.active[k], message>> : k \in peers \ lost}),
                  !.s.active = [k \in Keys |-> IF k \in lost THEN NoConn ELSE @[k]],
                  !.shut = @ \cup {w.s.active[k] : k \in lost}]

Advertise(w, except) == Broadcast(w, Handshake(w.n, w.s), except)

\* _request_fast_sync_stream: what is buffered is cleared, or there is nothing.
RequestStream(w, peer, start) ==
    Send([w EXCEPT !.s.sync[peer] = [active |-> TRUE, expected |-> start, chunks |-> {},
                                     accepted |-> FALSE]],
         peer, StreamRequest(start))

\* _complete_fast_sync
Complete(w, peer) == [w EXCEPT !.s.sync[peer] = NoSync]

----------------------------------------------------------------------------
(* The handshake: a connection gets the name its peer advertises, unless    *)
(* there is one of that name, and a sync moves along with it.               *)

KeepsConnection(s, peer, advertised) ==
    s.active[peer] # NoConn /\ s.active[advertised] \in {NoConn, s.active[peer]}

\* Mutant of RenamedActive: the connection keeps its first name as well.
RenamedActiveTwice(s, peer, advertised) ==
    [s.active EXCEPT ![advertised] =
        IF KeepsConnection(s, peer, advertised) THEN s.active[peer] ELSE @]

RenamedActive(s, peer, advertised) ==
    [ [s.active EXCEPT ![peer] = IF peer = advertised THEN @ ELSE NoConn]
      EXCEPT ![advertised] = IF KeepsConnection(s, peer, advertised) THEN s.active[peer] ELSE @ ]

RenamedSync(s, peer, advertised) ==
    [ [s.sync EXCEPT ![peer] = NoSync]
      EXCEPT ![advertised] =
        IF /\ s.sync[peer].active
           /\ RenamedActive(s, peer, advertised)[advertised] = s.active[peer]
        THEN s.sync[peer] ELSE @ ]

Renamed(w, advertised) ==
    [w EXCEPT !.s.active = RenamedActive(w.s, w.key, advertised),
              !.s.sync = RenamedSync(w.s, w.key, advertised),
              !.shut = IF KeepsConnection(w.s, w.key, advertised)
                       THEN @ ELSE @ \cup ({w.s.active[w.key]} \ {NoConn})]

\* _should_request_chain
ShouldRequest(s, m) ==
    m.height > HeightOf(s.tip) \/ (m.height = HeightOf(s.tip) /\ m.tip # s.tip)

\* The read task goes on under the new name, if the handler returns it.
NamedAs(w, advertised) == IF w.failed THEN w ELSE [w EXCEPT !.key = advertised]

SyncAfterHandshake(w, m) ==
    IF ShouldRequest(w.s, m) /\ ~w.s.sync[m.from].active
    THEN RequestStream(w, m.from, IF m.height > HeightOf(w.s.tip) THEN HeightOf(w.s.tip) + 1 ELSE 0)
    ELSE w

OnHandshake(w, m) ==
    {NamedAs(SyncAfterHandshake(renamed, m), m.from) : renamed \in {Renamed(w, m.from)}}

----------------------------------------------------------------------------
(* The sync of a chain.                                                     *)

\* _send_chain_stream: on the connection the peer has now, from the chain as
\* it is now.
OnStreamRequest(w, m) ==
    IF w.s.active[w.key] = NoConn
    THEN {[w EXCEPT !.failed = TRUE]}
    ELSE {[w EXCEPT !.serve = [next |-> m.start, chain |-> ChainOf[w.s.tip],
                               to |-> w.s.active[w.key]]]}

\* _send_chain_chunk
OnChainRequest(w, m) == {Send(w, w.key, ChunkOf(ChainOf[w.s.tip], m.start))}

NoneAttached(s, after, m) ==
    m.start > 0 /\ ~Took(s, after, m.blocks) /\ Waits(after, m.blocks)

NoProgress(s, after, m) ==
    ~Took(s, after, m.blocks) /\ ~Waits(after, m.blocks) /\ Refused(after, m.blocks)

\* Mutant of AfterFastChunk: a stream that does not attach is asked for again
\* from the same height.
AfterFastChunkAgain(w, s, m) ==
    CASE NoneAttached(s, w.s, m) -> RequestStream(w, w.key, m.start)
      [] NoProgress(s, w.s, m) -> Complete(w, w.key)
      [] OTHER ->
            IF ~m.done
            THEN [w EXCEPT !.s.sync[w.key].expected = m.next,
                           !.s.sync[w.key].accepted = @ \/ Took(s, w.s, m.blocks)]
            ELSE IF s.sync[w.key].accepted \/ Took(s, w.s, m.blocks)
                 THEN Advertise(Complete(w, w.key), {w.key})
                 ELSE Complete(w, w.key)


\* _drain_fast_sync_chunks, a chunk that was expected; w is at the node after
\* its import, s the node before.
AfterFastChunk(w, s, m) ==
    CASE NoneAttached(s, w.s, m) -> RequestStream(w, w.key, 0)
      [] NoProgress(s, w.s, m) -> Complete(w, w.key)
      [] OTHER ->
            IF ~m.done
            THEN [w EXCEPT !.s.sync[w.key].expected = m.next,
                           !.s.sync[w.key].accepted = @ \/ Took(s, w.s, m.blocks)]
            ELSE IF s.sync[w.key].accepted \/ Took(s, w.s, m.blocks)
                 THEN Advertise(Complete(w, w.key), {w.key})
                 ELSE Complete(w, w.key)

Unbuffered(s, peer, m) == [s EXCEPT !.sync[peer].chunks = @ \ {m}]

ImportFast(w, m) ==
    {AfterFastChunk(after, w.s, m) :
        after \in {[w EXCEPT !.s = Import(Unbuffered(@, w.key, m), m.blocks)]}}

DrainOne(w) ==
    LET expected == {m \in w.s.sync[w.key].chunks : m.start = w.s.sync[w.key].expected}
    IN  IF w.failed \/ ~w.s.sync[w.key].active \/ expected = {}
        THEN {w}
        ELSE UNION {ImportFast(w, m) : m \in expected}

DrainFast(w) ==
    LET held == Cardinality(w.s.sync[w.key].chunks)
        drained[i \in 0 .. held] ==
            IF i = 0 THEN {w} ELSE UNION {DrainOne(x) : x \in drained[i - 1]}
    IN  drained[held]

\* _handle_fast_sync_chunk: the first chunk of a height is kept.
OnFastChunk(w, m) ==
    IF \/ m.start < w.s.sync[w.key].expected
       \/ \E held \in w.s.sync[w.key].chunks : held.start = m.start
    THEN {w}
    ELSE UNION {DrainFast(x) : x \in {[w EXCEPT !.s.sync[w.key].chunks = @ \cup {m}]}}

\* A chunk without a fast sync.
AfterChunk(w, s, m) ==
    CASE NoneAttached(s, w.s, m) -> Send(w, w.key, ChainRequest(0))
      [] ~NoneAttached(s, w.s, m) /\ m.height > HeightOf(w.s.tip) /\ ~m.done ->
            IF NoProgress(s, w.s, m) THEN w ELSE Send(w, w.key, ChainRequest(m.next))
      [] OTHER -> IF Took(s, w.s, m.blocks) THEN Advertise(w, {w.key}) ELSE w

OnChunk(w, m) ==
    IF w.s.sync[w.key].active
    THEN OnFastChunk(w, m)
    ELSE {AfterChunk(after, w.s, m) : after \in {[w EXCEPT !.s = Import(@, m.blocks)]}}

\* seen_block_hashes
Seen(s, b) == [s EXCEPT !.seen = @ \cup {b}]

\* A block that is new here is passed on if it is accepted; one that is
\* rejected may come again.
AfterBlock(w, s, m) ==
    CASE Took(s, w.s, <<m.block>>) ->
            Broadcast([w EXCEPT !.s = Seen(@, m.block)], m, {w.key})
      [] Refused(w.s, <<m.block>>) -> w
      [] OTHER -> [w EXCEPT !.s = Seen(@, m.block)]

OnBlock(w, m) ==
    IF m.block \in w.s.seen
    THEN {w}
    ELSE {AfterBlock(after, w.s, m) : after \in {[w EXCEPT !.s = Import(@, <<m.block>>)]}}

\* _handle_message, as the set of what may come of it.
Handled(w, m) ==
    CASE m.type = "handshake" -> OnHandshake(w, m)
      [] m.type = "chain_stream_request" -> OnStreamRequest(w, m)
      [] m.type = "chain_request" -> OnChainRequest(w, m)
      [] m.type = "chain_chunk" -> OnChunk(w, m)
      [] m.type = "block" -> OnBlock(w, m)

----------------------------------------------------------------------------
(* Steps.                                                                   *)

Init ==
    \E scenario \in Scenarios :
        /\ node = [n \in Nodes |->
                    [ active |-> [k \in Keys |-> NoConn], sync |-> [k \in Keys |-> NoSync],
                      stored |-> ToSet(ChainOf[scenario.start[n]]), tip |-> scenario.start[n],
                      orphans |-> {}, seen |-> {}, refuses |-> scenario.refuses[n] ]]
        /\ conn = [c \in Conns |-> Unused]
        /\ budget = scenario.budget

\* What w sent arrives on connections that are open; closing one ends it for
\* both sides.  A read task that an exception ends drops what it has not read
\* and, if its connection is the one of its name, the peer.
MessagesOn(d, out) ==
    LET upTo[i \in 0 .. Len(out)] ==
            IF i = 0
            THEN << >>
            ELSE IF out[i][1] = d THEN Append(upTo[i - 1], out[i][2]) ELSE upTo[i - 1]
    IN  upTo[Len(out)]


Ended(s, key, c) ==
    IF s.active[key] = c
    THEN [s EXCEPT !.active[key] = NoConn, !.sync[key] = NoSync]
    ELSE s

ChanAfter(chan, d, c, w) ==
    [k \in Nodes |->
        IF k = w.n
        THEN IF d # c THEN chan[k]
             ELSE IF w.failed THEN << >>
             ELSE IF w.took THEN Tail(chan[k]) ELSE chan[k]
        ELSE IF k \in Ends(d) /\ conn[d].open THEN chan[k] \o MessagesOn(d, w.out) ELSE chan[k]]

ConnAfter(d, c, w) ==
    [conn[d] EXCEPT
        !.open = @ /\ d \notin w.shut /\ ~(d = c /\ w.failed),
        !.chan = IF w.n \in Ends(d) THEN ChanAfter(@, d, c, w) ELSE @,
        !.reader[w.n] = IF d # c THEN @ ELSE IF w.failed THEN NoKey ELSE w.key,
        !.serving[w.n] = IF d # c THEN @ ELSE w.serve]

\* The read task of c, or a task of its own if c is NoConn, has done w.
Settle(c, w) ==
    /\ node' = [node EXCEPT ![w.n] =
                    IF w.failed /\ c # NoConn THEN Ended(w.s, w.key, c) ELSE w.s]
    /\ conn' = [d \in Conns |-> ConnAfter(d, c, w)]

\* A write may meet the loss of a connection before its read task does.
Raising == {{}} \cup (IF budget.raises > 0 THEN {{d \in Conns : ~conn[d].open}} ELSE {})
Raised(b, raising) == [b EXCEPT !.raises = IF raising = {} THEN @ ELSE @ - 1]

\* connect_to_peer until the connection is there.  overlap: whether it may be
\* called while there is, or begins to be, another one of the two nodes.
Dial(n, m) ==
    /\ budget.dials[<<n, m>>] > 0
    /\ node[n].active[m] = NoConn
    /\ \A c \in Conns :
        Ends(c) = {n, m} => budget.overlap \/ (~conn[c].open /\ conn[c].waiting = {})
    /\ \E c \in Conns :
        /\ conn[c].from = NoNode
        /\ \A d \in 1 .. (c - 1) : conn[d].from # NoNode
        /\ conn' = [conn EXCEPT ![c] = [Unused EXCEPT !.from = n, !.to = m, !.waiting = {n, m},
                                                      !.open = TRUE]]
    /\ budget' = [budget EXCEPT !.dials[<<n, m>>] = @ - 1]
    /\ UNCHANGED node

\* The end of connect_to_peer, the beginning of _handle_connection.
ReadBy(w, connection) ==
    [connection EXCEPT !.waiting = @ \ {w.n},
                       !.reader[w.n] = IF w.failed THEN NoKey ELSE w.key]

Registered(c, w) ==
    /\ node' = [node EXCEPT ![w.n] = w.s]
    /\ conn' = [conn EXCEPT ![c] = ReadBy(w, ConnAfter(c, NoConn, w))]

Register(n, c) ==
    /\ n \in conn[c].waiting
    /\ \E raising \in Raising :
        LET key == IF n = conn[c].from THEN conn[c].to ELSE c
        IN  /\ Registered(c, Send([Work(n, key, raising) EXCEPT !.s.active[key] = c], key,
                                  Handshake(n, node[n])))
            /\ budget' = Raised(budget, raising)

Reads(n, c) == conn[c].reader[n] # NoKey /\ conn[c].serving[n] = NoStream

Read(n, c) ==
    /\ Reads(n, c)
    /\ conn[c].chan[n] # << >>
    /\ \E raising \in Raising :
        /\ \E w \in {[Work(n, conn[c].reader[n], raising) EXCEPT !.took = TRUE]} :
            \E done \in Handled(w, Head(conn[c].chan[n])) : Settle(c, done)
        /\ budget' = Raised(budget, raising)

\* One chunk of _send_chain_stream: it stays on the connection it began with.
Served(w, stream, chunk) ==
    IF stream.to \in w.raising
    THEN [w EXCEPT !.failed = TRUE]
    ELSE [w EXCEPT !.out = <<<<stream.to, chunk>>>>,
                   !.serve = IF chunk.done THEN NoStream ELSE [stream EXCEPT !.next = chunk.next]]

Serve(n, c) ==
    /\ conn[c].serving[n] # NoStream
    /\ \E raising \in Raising :
        /\ Settle(c, Served(Work(n, conn[c].reader[n], raising), conn[c].serving[n],
                            ChunkOf(conn[c].serving[n].chain, conn[c].serving[n].next)))
        /\ budget' = Raised(budget, raising)

\* The end of the stream, whatever of it was not read.
EndRead(n, c) ==
    /\ Reads(n, c)
    /\ ~conn[c].open
    /\ Settle(c, [Work(n, conn[c].reader[n], {}) EXCEPT !.failed = TRUE])
    /\ UNCHANGED budget

\* disconnect_peer
Disconnect(n, k) ==
    /\ budget.disconnects > 0
    /\ node[n].active[k] # NoConn
    /\ node' = [node EXCEPT ![n].active[k] = NoConn, ![n].sync[k] = NoSync]
    /\ conn' = [conn EXCEPT ![node[n].active[k]].open = FALSE]
    /\ budget' = [budget EXCEPT !.disconnects = @ - 1]

\* The network drops a connection.
Lose(c) ==
    /\ budget.losses > 0
    /\ conn[c].open
    /\ conn' = [conn EXCEPT ![c].open = FALSE]
    /\ budget' = [budget EXCEPT !.losses = @ - 1]
    /\ UNCHANGED node

\* The node mines a block on its tip and broadcasts it.
Mined(w, b) ==
    Broadcast([w EXCEPT !.s = Seen(Import(@, <<b>>), b)], BlockMessage(b), {})

Mine(n, b) ==
    /\ b \in budget.mines[n]
    /\ ParentOf[b] = node[n].tip
    /\ b \notin node[n].stored
    /\ \E raising \in Raising :
        /\ Settle(NoConn, Mined(Work(n, NoKey, raising), b))
        /\ budget' = Raised([budget EXCEPT !.mines[n] = @ \ {b}], raising)

\* request_chain_sync
SyncWith(w, peer, start, fast) ==
    CASE w.failed \/ (fast /\ w.s.sync[peer].active) -> w
      [] ~w.failed /\ fast /\ ~w.s.sync[peer].active -> RequestStream(w, peer, start)
      [] ~w.failed /\ ~fast -> Send(Complete(w, peer), peer, ChainRequest(start))

SyncWithAll(w, start, fast) ==
    LET peers == SetToSeq({k \in Keys : w.s.active[k] # NoConn})
        asked[i \in 0 .. Len(peers)] ==
            IF i = 0 THEN w ELSE SyncWith(asked[i - 1], peers[i], start, fast)
    IN  asked[Len(peers)]

Sync(n, fast) ==
    /\ budget.syncs > 0
    /\ \E k \in Keys : node[n].active[k] # NoConn
    /\ \E raising \in Raising :
        /\ Settle(NoConn, SyncWithAll(Work(n, NoKey, raising), HeightOf(node[n].tip) + 1, fast))
        /\ budget' = Raised([budget EXCEPT !.syncs = @ - 1], raising)

\* What the tasks at the ends of a connection do next.
TasksOf(c) ==
    \E n \in Nodes : Register(n, c) \/ Read(n, c) \/ Serve(n, c) \/ EndRead(n, c)

Network == \E c \in Conns : TasksOf(c)

Environment ==
    \/ \E n, m \in Nodes : n # m /\ Dial(n, m)
    \/ \E n \in Nodes, k \in Keys : Disconnect(n, k)
    \/ \E c \in Conns : Lose(c)
    \/ \E n \in Nodes, b \in Blocks : Mine(n, b)
    \/ \E n \in Nodes, fast \in BOOLEAN : Sync(n, fast)

Next == Network \/ Environment

\* No task of the connection c, or of any, has anything to do until something
\* new arrives.
QuietOn(c) ==
    \A n \in Nodes :
        /\ n \notin conn[c].waiting
        /\ conn[c].serving[n] = NoStream
        /\ conn[c].reader[n] # NoKey => conn[c].open /\ conn[c].chan[n] = << >>

Quiet == \A c \in Conns : QuietOn(c)

\* The event loops run every task that is ready, so that no connection waits
\* for others to fall silent; nobody has to dial, mine or fail.
TasksRun == \A c \in Conns : WF_vars(TasksOf(c))

Spec == Init /\ [][Next]_vars /\ TasksRun

----------------------------------------------------------------------------
(* Properties.                                                              *)

Listed(n, k) == node[n].active[k] # NoConn

\* Peers that are listed, but not read under the name they are listed by.
Ghosts ==
    {p \in Nodes \X Keys :
        Listed(p[1], p[2]) /\ conn[node[p[1]].active[p[2]]].reader[p[1]] # p[2]}

\* A peer a node lists (active_connections) is read by the task that will take
\* it off the list, under the name it is listed by.  A write that meets the
\* loss of the connection while hands are shaken can leave a peer on the list
\* that nobody reads: the first handshake is written before the task there is,
\* and a task that fails in a handshake takes the old name off the list.  No
\* other step makes a ghost, and no connection of a ghost is open.
NoGhostPeers ==
    /\ [](\A p \in Ghosts :
            LET c == node[p[1]].active[p[2]]
            IN  ~conn[c].open /\ conn[c].reader[p[1]] = NoKey)
    /\ [][Ghosts' \subseteq Ghosts \/ budget'.raises < budget.raises]_vars

\* Something is still to come for a sync of the node n with k on c, a
\* connection that n reads as k: the end of it, which ends the sync as well,
\* an answer, the stream, or the request that asks for one.
Coming(n, k, c) ==
    /\ conn[c].reader[n] = k
    /\ \/ ~conn[c].open /\ node[n].active[k] = c
       \/ \E i \in DOMAIN conn[c].chan[n] : conn[c].chan[n][i].type = "chain_chunk"
       \/ \E d \in Conns, m \in Nodes : conn[d].serving[m] # NoStream /\ conn[d].serving[m].to = c
       \/ \E i \in DOMAIN conn[c].chan[Other(c, n)] :
              conn[c].chan[Other(c, n)][i].type = "chain_stream_request"

\* Syncs that are active (fast_sync_states) and wait for nothing: no message
\* will end them, and request_chain_sync skips them for good ("Fast sync
\* already active").
Stranded ==
    {p \in Nodes \X Keys :
        /\ node[p[1]].sync[p[2]].active
        /\ ~\E c \in Conns : p[1] \in Ends(c) /\ Coming(p[1], p[2], c)}

InUse(c) ==
    conn[c].open \/ conn[c].waiting # {} \/ \E n \in Nodes : conn[c].reader[n] # NoKey

\* The two nodes a name is used between.
Pair(n, k) == IF k \in Nodes THEN {n, k} ELSE Ends(k)

\* Two nodes have two connections, as when both dial at once.
Doubled(pair) ==
    \E c, d \in Conns : c # d /\ Ends(c) = pair /\ Ends(d) = pair /\ InUse(c) /\ InUse(d)


Connected(n, m) ==
    /\ node[n].active[m] # NoConn /\ node[n].active[m] = node[m].active[n]
    /\ conn[node[n].active[m]].open


\* One end of c refuses a block the other has built on.
Divided(c) ==
    \E n \in Ends(c) : \E b \in node[n].refuses, d \in node[Other(c, n)].stored :
        ParentOf[d] = b

\* The messages that answer each other come to an end: from some time on
\* every task waits for something new to arrive, unless its node refuses a
\* block in the middle of the other's chain and asks for that chain again and
\* again.
ConversationsEnd == \A c \in Conns : <>[](QuietOn(c) \/ Divided(c))
=============================================================================
