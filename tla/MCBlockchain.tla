---------------------------- MODULE MCBlockchain ----------------------------
(* A small chain of transfers between two wallets, both of which mine: two  *)
(* transfers of alice that follow each other, one that conflicts with the   *)
(* first, and one of bob.                                                   *)
EXTENDS Blockchain

Symmetry == Permutations(Hashes)

mcAccounts == {"alice", "bob"}
mcAddressWord == [a \in mcAccounts |-> 1]
mcSha256 == [w \in Word |-> w]

\* There are no programs, commitments or contracts.
mcNothing == << >>

Transfer(from, to, amount, fee, nonce) ==
    [ kind |-> "transfer", sender |-> from, receiver |-> to, amount |-> amount,
      fee |-> fee, nonce |-> nonce, authentic |-> TRUE, wellformed |-> TRUE, data |-> << >> ]

First  == Transfer("alice", "bob", 1, 0, 0)
Second == Transfer("alice", "bob", 1, 1, 1)
Rival  == Transfer("alice", "bob", 2, 1, 0)
Reply  == Transfer("bob", "alice", 1, 0, 0)
mcTransactions == {First, Second, Rival, Reply}

Body(miner, fees, txs) == <<RewardTransaction(miner, fees)>> \o txs

mcPeerBodies ==
    { Body("alice", 0, << >>),
      Body("bob", 0, << >>),
      Body("bob", 0, <<First>>),
      Body("bob", 1, <<Rival>>),
      Body("alice", 1, << >>),              \* claims a fee nobody paid
      <<First, RewardTransaction("bob", 0)>> }  \* the reward is not first
=============================================================================
