------------------------------- MODULE MCNode -------------------------------
(* A node of alice, blocks of bob: one that pays alice, one with a commitment on it, *)
(* an invalid block on that, a rival of the first, and a block on one that    *)
(* alice mined.                                                               *)
EXTENDS Node

CONSTANTS g, p1, p2, q1, x3, r2, m1, m2

mcAccounts == {"alice", "bob"}
mcAddressWord == [a \in mcAccounts |-> 1]
mcSha256 == [w \in Word |-> w]

mcHashes == {g, p1, p2, q1, x3, r2, m1, m2}

Transfer(from, to, amount, fee, nonce) ==
    [ kind |-> "transfer", sender |-> from, receiver |-> to, amount |-> amount,
      fee |-> fee, nonce |-> nonce, authentic |-> TRUE, wellformed |-> TRUE, data |-> << >> ]

First == Transfer("alice", "bob", 1, 0, 0)

\* A commitment needs no coins: it can be in the first block.
Commit(wallet) ==
    [ kind |-> "commit", sender |-> wallet, receiver |-> Nobody, amount |-> 0, fee |-> 0,
      nonce |-> 0, authentic |-> TRUE, wellformed |-> TRUE,
      data |-> [request |-> "r", hash |-> CommitmentHash(wallet, "r", 0)] ]

mcTransactions == {First, Commit("alice")}

mcCommitWord == [hash \in {CommitmentHash(w, "r", 0) : w \in mcAccounts} |-> 0]

\* There are no programs.
mcNothing == << >>

Block(parent, id, wallet, fees, txs, work) ==
    [ block_id |-> id, previous_hash |-> parent,
      transactions |-> <<RewardTransaction(wallet, fees)>> \o txs, work |-> work ]

mcPeerBlocks ==
    (p1 :> Block(g, 1, "alice", 0, << >>, 1)) @@
    (p2 :> Block(p1, 2, "bob", 0, <<Commit("bob")>>, 1)) @@
    (q1 :> Block(g, 1, "alice", 0, << >>, 1)) @@
    (x3 :> Block(p2, 3, "bob", 1, << >>, 1)) @@     \* claims a fee nobody paid
    (r2 :> Block(m1, 2, "bob", 0, <<First>>, 1))

\* What they carry.
mcPeerBodies == {mcPeerBlocks[hash].transactions : hash \in DOMAIN mcPeerBlocks}

mcChunks == {<<p1, p2>>, <<p2, x3>>}

\* Blocks for LostPayment.cfg: one that pays alice, and a branch beside it
\* whose last block pays her too, and may come first, as an orphan.
mcRivalBlocks ==
    (p1 :> Block(g, 1, "alice", 0, << >>, 1)) @@
    (q1 :> Block(g, 1, "bob", 0, << >>, 1)) @@
    (r2 :> Block(q1, 2, "bob", 0, << >>, 1)) @@
    (x3 :> Block(r2, 3, "alice", 0, << >>, 1))
mcRivalBodies == {mcRivalBlocks[hash].transactions : hash \in DOMAIN mcRivalBlocks}
mcNoChunks == {}

\* What NodeKeepsTransactions does not promise of blocks that orphans wait for.
OrphansKeepTransactions ==
    [][WakesOrphans =>
          \A tx \in ToSet(pending) :
              (/\ tx \notin Payments(blocks', mainTip')
               /\ CanApply(tx, (StateAt(mainTip).ledger)'))
              => \E other \in ToSet(pending') : other.sender = tx.sender]_allVars

\* Restarts of a node that mines in public; of one with a private tip.
mcRestarts == [isPrivate \in BOOLEAN |-> IF isPrivate THEN 0 ELSE 1]
mcPrivateRestarts == [isPrivate \in BOOLEAN |-> IF isPrivate THEN 1 ELSE 0]
=============================================================================
