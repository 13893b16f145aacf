--------------------------- MODULE ContractChain ---------------------------
(***************************************************************************)
(* What a chain promises to those who use contracts and shared randomness  *)
(* (docs/contracts-and-uvm.md), stated over the tree of Blockchain.tla.    *)
(***************************************************************************)
EXTENDS Blockchain

NonGenesis == {h \in Stored : Parent(h) # NoHash}
Before(h) == states[Parent(h)].ledger
After(h) == states[h].ledger

\* A deployed contract, a commitment and a reveal are final: no later block of
\* the branch changes them, also when a request id or an address is used
\* again; and every reveal opens the commitment its sender made before.
RecordsAreFinal ==
    \A h \in NonGenesis :
        /\ \A key \in DOMAIN Before(h).commitments :
              /\ key \in DOMAIN After(h).commitments
              /\ After(h).commitments[key] = Before(h).commitments[key]
        /\ \A key \in DOMAIN Before(h).reveals :
              /\ key \in DOMAIN After(h).reveals
              /\ After(h).reveals[key] = Before(h).reveals[key]
        /\ \A c \in DOMAIN Before(h).contracts :
              /\ c \in DOMAIN After(h).contracts
              /\ After(h).contracts[c] = Before(h).contracts[c]
        /\ \A key \in DOMAIN After(h).reveals :
              /\ key \in DOMAIN After(h).commitments
              /\ After(h).commitments[key] =
                    CommitmentHash(key[1], key[2], After(h).reveals[key])

\* docs/contracts-and-uvm.md:150: "blocks only accept those mutations when the
\* VM finishes successfully".  A contract's storage changes, and its coins
\* leave it, only in a block with a successful execution of that contract.
OnlySuccessfulRunsMutate ==
    \A h \in NonGenesis : \A c \in Contracts :
        (\/ After(h).storage[c] # Before(h).storage[c]
         \/ After(h).balances[c] < Before(h).balances[c])
        => \E tx \in ToSet(blocks[h].transactions) :
              /\ tx.kind = "execute" /\ tx.receiver = c
              /\ After(h).receipts[tx].success

\* What a transaction takes from the wallet w: of an execution, the fee that
\* was paid.
CostTo(w, tx, ledger) ==
    CASE tx.sender # w -> 0
      [] tx.sender = w /\ tx.kind = "execute" -> ledger.receipts[tx].fee_paid
      [] tx.sender = w /\ tx.kind # "execute" -> tx.amount + tx.fee

CostsTo(w, h) ==
    Total([n \in DOMAIN blocks[h].transactions |->
              CostTo(w, blocks[h].transactions[n], After(h))])

\* No contract may have moved coins of w in the block: w has authorized none,
\* and no execution that w sent, or that ran under w's address, succeeded.
OutOfReach(w, h) ==
    /\ \A i \in DOMAIN After(h).authorizations : After(h).authorizations[i].wallet # w
    /\ \A tx \in ToSet(blocks[h].transactions) :
          tx.kind = "execute" /\ w \in {tx.sender, tx.receiver}
              => ~After(h).receipts[tx].success

\* docs/contracts-and-uvm.md:154: the fee of an execution is an escrow; at
\* most the escrow is paid, for gas at the price named, and the rest returns.
\* So the value and the escrow of runs that failed are not lost on who paid
\* them: a wallet whose runs all failed has after a block what it had on the
\* parent, less the fees the receipts name and its other payments.
EscrowIsSettled ==
    \A h \in NonGenesis :
        /\ \A tx \in DOMAIN After(h).receipts :
              LET paid == After(h).receipts[tx].fee_paid
              IN  /\ paid \in 0 .. tx.fee
                  /\ tx.data.gas_price > 0 => paid <= tx.data.gas_price * tx.data.gas_limit
        /\ \A w \in Wallets :
              OutOfReach(w, h) => After(h).balances[w] >= Before(h).balances[w] - CostsTo(w, h)

\* docs/contracts-and-uvm.md:36: an authorization binds a wallet to a contract
\* and its code hash and "Once mined, every synced node can use it during
\* execution": whatever authorize transaction the chain took for a deployed
\* contract's code is one the contract's executions find, at a height in its
\* scope.
AuthorizationTakesEffect ==
    \A h \in Stored :
        LET ledger == After(h)
        IN  \A i \in DOMAIN ledger.authorizations :
              LET auth == ledger.authorizations[i]
              IN  (/\ IsDeployed(ledger, auth.contract)
                   /\ auth.code_hash = Lower(ledger.contracts[auth.contract].code_hash)
                   /\ InScope(auth, Height(h) + 1))
                  => <<auth.wallet, auth.request>> \in
                        AuthorizedPairs(ledger, auth.contract,
                                        ledger.contracts[auth.contract].code_hash,
                                        Height(h) + 1)

=============================================================================
