---------------------------- MODULE MCContracts ----------------------------
(* Two funded wallets and a miner.  Bob commits to a seed, reveals it and    *)
(* authorizes a game; alice deploys the game and runs it, once with enough   *)
(* gas and once without.  The game takes note that it was run, and if bob    *)
(* has revealed and authorized it, takes 4 coins from him and pays alice 3.  *)
EXTENDS ContractChain

CONSTANTS h1, h2, h3, Seed, OtherSeed, Game, Spend

Symmetry == Permutations(Hashes \ {h1, h2, h3})

mcWallets == {"alice", "bob", "carol"}
mcAccounts == mcWallets \cup {"game"}
mcAddressWord == [a \in mcAccounts |-> 1]
mcSha256 == [w \in Word |-> w]
mcContractAddress == [k \in {<<"alice", 0, Game>>} |-> "game"]
mcCommitWord == [k \in {CommitmentHash("bob", "r1", s) : s \in {Seed, OtherSeed}} |-> 5]

Ins(op, args) == [op |-> op, args |-> args]
GameProgram ==
    << Ins("PUSH", <<1>>), Ins("STORE", <<"k">>),
       Ins("HAS_REVEAL", <<"bob", "r1">>), Ins("JUMPI", <<5>>), Ins("REVERT", << >>),
       Ins("PUSH", <<4>>), Ins("TRANSFER_FROM", <<"bob", "self", "r1">>),
       Ins("PUSH", <<3>>), Ins("TRANSFER_FROM", <<"self", "alice", "r1">>) >>
\* Alice sends 50 coins to bob from an inline program, then does one thing more.
SpendProgram ==
    << Ins("PUSH", <<50>>), Ins("TRANSFER_FROM", <<"alice", "bob", "r1">>), Ins("PUSH", <<1>>) >>
mcProgramOf == [c \in {Game, Spend} |-> IF c = Game THEN GameProgram ELSE SpendProgram]
mcMetadataOf == [c \in {Game, Spend} |-> << >>]

Transaction(kind, sender, nonce, receiver, amount, fee, data) ==
    [ kind |-> kind, sender |-> sender, receiver |-> receiver, amount |-> amount,
      fee |-> fee, nonce |-> nonce, authentic |-> TRUE, wellformed |-> TRUE, data |-> data ]

Deploy(upper) ==
    Transaction("deploy", "alice", 0, "game", 0, 1,
                [contract |-> "game", code |-> Game,
                 code_hash |-> [code |-> Game, upper |-> upper]])
ExecuteWith(nonce, code, value, fee, gasLimit, gasPrice) ==
    Transaction("execute", "alice", nonce, "game", value, fee,
                [contract |-> "game", inline |-> code, input |-> << >>,
                 gas_limit |-> gasLimit, gas_price |-> gasPrice])
Execute(nonce, fee, gasLimit) == ExecuteWith(nonce, NoCode, 5, fee, gasLimit, 1)
\* Alice's escrow leaves her 40 coins of her reward: not enough for the program.
SpendNow == ExecuteWith(0, Spend, 0, 260, 52, 5)
Authorize(nonce) ==
    Transaction("authorize", "bob", nonce, "game", 0, 0,
                [contract |-> "game", code_hash |-> CodeHash(Game), request |-> "r1",
                 from |-> 0, until |-> 9])
Commit(nonce, seed) ==
    Transaction("commit", "bob", nonce, Nobody, 0, 1,
                [request |-> "r1", hash |-> CommitmentHash("bob", "r1", seed)])
Reveal(nonce) ==
    Transaction("reveal", "bob", nonce, Nobody, 0, 0, [request |-> "r1", seed |-> Seed])

mcTransactions ==
    { Deploy(FALSE), Execute(1, 220, 220), Execute(1, 120, 120), Execute(1, 100, 220), SpendNow,
      Commit(0, Seed), Reveal(1), Authorize(2), Commit(1, OtherSeed) }
mcTransactionsUpper == { Deploy(TRUE), Authorize(0) }
mcTransactionsSpend == { SpendNow }
mcPeerBodies == { <<RewardTransaction("carol", 0)>> }

\* The pool when the wallets have been funded by mining a block each.
Reward(id, parent, miner) ==
    [ block_id |-> id, previous_hash |-> parent,
      transactions |-> IF id = 0 THEN << >> ELSE <<RewardTransaction(miner, 0)>>,
      work |-> RequiredBits(id) ]

FundedInit ==
    LET one == ApplyInOrder(<<RewardTransaction("alice", 0)>>, EmptyLedger, 1).ledger
        two == ApplyInOrder(<<RewardTransaction("bob", 0)>>, one, 2).ledger
    IN  /\ blocks = (h1 :> Reward(0, NoHash, Nobody))
                      @@ (h2 :> Reward(1, h1, "alice")) @@ (h3 :> Reward(2, h2, "bob"))
        /\ states = (h1 :> [height |-> 0, ledger |-> EmptyLedger])
                      @@ (h2 :> [height |-> 1, ledger |-> one])
                      @@ (h3 :> [height |-> 2, ledger |-> two])
        /\ mainTip = h3
        /\ pending = << >>
        /\ candidate = NoBlock

FundedSpec == FundedInit /\ [][Next]_vars
=============================================================================
