------------------------------- MODULE Ledger -------------------------------
(***************************************************************************)
(* What a transaction does to the state of a chain: the ChainState of      *)
(* core/blockchain.py and _apply_transaction_to_state_error with its       *)
(* helpers, as operators.  A ledger is a ChainState without its height.    *)
(*                                                                         *)
(* Signatures, public keys and the form of payloads (non-empty strings,    *)
(* hexadecimal lengths, programs that parse) are two booleans of a         *)
(* transaction, authentic and wellformed.  Hashes do not collide: a        *)
(* commitment hash is the triple it is computed from, a code hash is the   *)
(* code's name and the case it is written in, and the id of a transaction  *)
(* is the transaction.                                                     *)
(*                                                                         *)
(* Amounts, decimals in the code, are integers here: numbers of the finest *)
(* unit in use.  The code rounds every sum, difference and product to 28   *)
(* significant digits, the default of Python's decimals, so that it        *)
(* computes what is written below as long as what it adds and subtracts    *)
(* stays below 10^28 units.  Nothing in the code sees to that: an amount   *)
(* has any number of digits (node.py:317), and 1E-30 coins sent from a     *)
(* balance of 10 leave the sender its 10.  Precision names the bound, and  *)
(* AmountsFit in Blockchain.tla the chains that keep to it.                *)
(***************************************************************************)
EXTENDS UVM

CONSTANTS
    Wallets,          \* addresses with a key pair
    Contracts,        \* contract addresses
    Nobody,           \* the empty address
    ProgramOf,        \* code name -> program
    MetadataOf,       \* code name -> metadata mapping
    NoCode,           \* an execution that carries no program of its own
    ContractAddress,  \* <<deployer, nonce, code>> -> contract address
    CommitWord,       \* commitment hash -> word, what READ_COMMIT pushes
    MiningReward,     \* MINING_REWARD_AMOUNT
    Precision,        \* amounts below it are not rounded: 10^28 units
    MaxBlockTransactions  \* MAX_TRANSACTIONS_PER_BLOCK

ASSUME AccountsAssumption ==
    Wallets \cup Contracts = Accounts /\ Wallets \cap Contracts = {}
ASSUME NobodyAssumption == Nobody \notin Accounts
ASSUME RewardAssumption == MiningReward \in Nat \ {0}
ASSUME PrecisionAssumption == Precision \in Nat
ASSUME BlockSizeAssumption == MaxBlockTransactions \in Nat \ {0}
ASSUME ProgramsAssumption ==
    NoCode \notin DOMAIN ProgramOf /\ \A code \in DOMAIN ProgramOf : IsProgram(ProgramOf[code])
ASSUME CommitWordAssumption == \A hash \in DOMAIN CommitWord : CommitWord[hash] \in Word

\* A dictionary with one entry set.
With(f, x, y) == [z \in DOMAIN f \cup {x} |-> IF z = x THEN y ELSE f[z]]

EmptyLedger ==
    [ balances       |-> [a \in Accounts |-> 0],
      nonces         |-> [w \in Wallets |-> 0],
      commitments    |-> << >>,     \* <<wallet, request>> -> commitment hash
      reveals        |-> << >>,     \* <<wallet, request>> -> seed
      authorizations |-> << >>,     \* the list, in the order it was written
      contracts      |-> << >>,     \* address -> [code, code_hash]
      storage        |-> [a \in Accounts |-> [k \in Keys |-> 0]],
      receipts       |-> << >> ]    \* transaction -> how its run ended

\* create_mining_reward_transaction
RewardTransaction(miner, fees) ==
    [ kind |-> "reward", sender |-> Nobody, receiver |-> miner,
      amount |-> MiningReward + fees, fee |-> 0, nonce |-> 0,
      authentic |-> TRUE, wellformed |-> TRUE, data |-> << >> ]

IsReward(tx) == tx.kind = "reward"

----------------------------------------------------------------------------
(* Hashes as the code writes and compares them.                            *)

CodeHash(code) == [code |-> code, upper |-> FALSE]
Lower(hash) == [hash EXCEPT !.upper = FALSE]

CommitmentHash(sender, request, seed) == <<sender, request, seed>>

----------------------------------------------------------------------------
(* The execution of a contract.                                            *)

\* UvmAuthorizationScope.validation_error
InScope(auth, height) ==
    /\ auth.from <= auth.until
    /\ height \in auth.from .. auth.until

\* _build_chain_authorization_index: the hash in the authorization is made
\* lower case, the one it is compared with is taken as it is.
AuthorizedPairs(ledger, contract, hash, height) ==
    { <<auth.wallet, auth.request>> :
        auth \in { a \in {ledger.authorizations[i] : i \in DOMAIN ledger.authorizations} :
                     /\ a.contract = contract
                     /\ Lower(a.code_hash) = hash
                     /\ InScope(a, height) } }

IsDeployed(ledger, contract) == contract \in DOMAIN ledger.contracts

\* The code an execution runs: the deployed contract's, else its own.
ExecutedCode(tx, ledger) ==
    IF IsDeployed(ledger, tx.receiver)
    THEN ledger.contracts[tx.receiver].code
    ELSE tx.data.inline

ExecutedHash(tx, ledger) ==
    IF IsDeployed(ledger, tx.receiver)
    THEN ledger.contracts[tx.receiver].code_hash
    ELSE CodeHash(tx.data.inline)

\* The balances when value and full escrow have left the sender.
Escrowed(balances, tx) == [balances EXCEPT ![tx.sender] = @ - (tx.amount + tx.fee)]

\* The context of the run: the value has reached the contract.
ExecutionContext(tx, ledger, height) ==
    LET deployed == IsDeployed(ledger, tx.receiver)
    IN  [ sender      |-> tx.sender,
          contract    |-> tx.receiver,
          gas_limit   |-> tx.data.gas_limit,
          height      |-> height,
          balances    |-> [Escrowed(ledger.balances, tx) EXCEPT ![tx.receiver] = @ + tx.amount],
          storage     |-> ledger.storage[tx.receiver],
          commitments |-> [p \in DOMAIN ledger.commitments |-> CommitWord[ledger.commitments[p]]],
          reveals     |-> ledger.reveals,
          authorized  |-> AuthorizedPairs(ledger, tx.receiver, ExecutedHash(tx, ledger), height),
          metadata    |-> IF deployed THEN MetadataOf[ExecutedCode(tx, ledger)] ELSE << >>,
          input       |-> IF deployed THEN tx.data.input ELSE << >> ]

Execution(tx, ledger, height) ==
    Run(ProgramOf[ExecutedCode(tx, ledger)], ExecutionContext(tx, ledger, height))

\* The fee of an execution: gas is paid for when it has a price, else the
\* whole fee is.
FeeOfRun(tx, run) ==
    IF tx.data.gas_price > 0
    THEN tx.data.gas_price * (tx.data.gas_limit - run.gas)
    ELSE tx.fee

\* The fee the miner receives.
FeePaid(tx, ledger, height) ==
    CASE IsReward(tx)        -> 0
      [] tx.kind = "execute" -> FeeOfRun(tx, Execution(tx, ledger, height))
      [] OTHER               -> tx.fee

----------------------------------------------------------------------------
(* When a transaction applies.                                             *)

TransferApplies(tx) ==
    /\ tx.kind = "transfer"
    /\ tx.receiver \in Accounts
    /\ tx.amount > 0

\* Mutant of CommitApplies: a commitment may be made again.
CommitAppliesAgain(tx, ledger) ==
    tx.kind = "commit" /\ tx.receiver = Nobody /\ tx.amount = 0

\* _validate_commit_transaction_error: one commitment per sender and request.
CommitApplies(tx, ledger) ==
    /\ tx.kind = "commit"
    /\ tx.receiver = Nobody /\ tx.amount = 0
    /\ tx.data.hash \in DOMAIN CommitWord
    /\ <<tx.sender, tx.data.request>> \notin DOMAIN ledger.commitments

\* _validate_reveal_transaction_error: a reveal opens its own commitment, once.
RevealApplies(tx, ledger) ==
    LET key == <<tx.sender, tx.data.request>>
    IN  /\ tx.kind = "reveal"
        /\ tx.receiver = Nobody /\ tx.amount = 0
        /\ key \in DOMAIN ledger.commitments
        /\ key \notin DOMAIN ledger.reveals
        /\ CommitmentHash(tx.sender, tx.data.request, tx.data.seed) = ledger.commitments[key]

\* _validate_authorize_transaction_error: a contract that is already deployed
\* must have the code hash that is authorized.
AuthorizeApplies(tx, ledger) ==
    /\ tx.kind = "authorize"
    /\ tx.receiver \in Accounts /\ tx.amount = 0
    /\ tx.data.contract = tx.receiver
    /\ IsDeployed(ledger, tx.receiver) =>
          Lower(tx.data.code_hash) = Lower(ledger.contracts[tx.receiver].code_hash)

\* _validate_deploy_transaction_error: a fresh address, derived from the
\* deployer, the nonce and the code.
DeployApplies(tx, ledger) ==
    /\ tx.kind = "deploy"
    /\ tx.receiver \in Accounts /\ tx.amount = 0
    /\ tx.data.contract = tx.receiver
    /\ ~IsDeployed(ledger, tx.receiver)
    /\ Lower(tx.data.code_hash) = CodeHash(tx.data.code)
    /\ tx.receiver = ContractAddress[<<tx.sender, tx.nonce, tx.data.code>>]

EscrowCoversGas(tx) ==
    tx.data.gas_price > 0 => tx.fee >= tx.data.gas_limit * tx.data.gas_price

ExecuteApplies(tx, ledger) ==
    /\ tx.kind = "execute"
    /\ tx.receiver \in Accounts
    /\ tx.data.contract = tx.receiver
    /\ tx.data.gas_limit \in Nat /\ tx.data.gas_price \in Nat
    /\ EscrowCoversGas(tx)
    /\ ExecutedCode(tx, ledger) \in DOMAIN ProgramOf

\* Mutant of HasNextNonce: a nonce that was used is taken again.
HasUsedNonce(tx, ledger) == tx.nonce <= ledger.nonces[tx.sender]

HasNextNonce(tx, ledger) == tx.nonce = ledger.nonces[tx.sender]

\* Only transfers and executions have a non-zero amount, so every kind costs
\* amount and fee.
CanPay(tx, ledger) == ledger.balances[tx.sender] >= tx.amount + tx.fee

\* _apply_transaction_to_state_error returns no error.
CanApply(tx, ledger) ==
    /\ tx.authentic /\ tx.wellformed
    /\ tx.fee \in Nat /\ tx.amount \in Nat
    /\ IF IsReward(tx)
       THEN tx.receiver \in Accounts /\ tx.amount > 0
       ELSE /\ tx.sender \in Wallets    \* the address of the key it is signed with
            /\ HasNextNonce(tx, ledger)
            /\ CanPay(tx, ledger)
            /\ \/ TransferApplies(tx)
               \/ CommitApplies(tx, ledger)
               \/ RevealApplies(tx, ledger)
               \/ AuthorizeApplies(tx, ledger)
               \/ DeployApplies(tx, ledger)
               \/ ExecuteApplies(tx, ledger)

----------------------------------------------------------------------------
(* What it does, exactly: see Precision.                                   *)

\* The sender's nonce advances and its fee is taken, for every kind.
Charged(tx, ledger, paid) ==
    [ledger EXCEPT !.nonces[tx.sender] = @ + 1, !.balances[tx.sender] = @ - paid]

\* Mutants: a run that reverted or ran out of gas is kept; the value is taken
\* to have left the sender with the escrow.
KeepsMostRuns(run) == run.status # "failed"
ValueFromEscrow(tx, balances) == [balances EXCEPT ![tx.receiver] = @ + tx.amount]

KeepsRun(run) == run.status = "succeeded"
ValueMoved(tx, balances) == Moved(balances, tx.sender, tx.receiver, tx.amount)

\* Mutant of Settled: the value is gone with the fee, however the run ended.
SettledWithValue(tx, ledger, run) ==
    LET paid == FeeOfRun(tx, run)
    IN  [Charged(tx, ledger, paid + tx.amount) EXCEPT !.receipts =
            With(@, tx, [ success |-> run.status = "succeeded", fee_paid |-> paid,
                          fee_refunded |-> tx.fee - paid ])]

\* The nonce, the fee and the receipt, however the run ended.
Settled(tx, ledger, run) ==
    LET paid == FeeOfRun(tx, run)
    IN  [Charged(tx, ledger, paid) EXCEPT !.receipts =
            With(@, tx, [ success |-> run.status = "succeeded", fee_paid |-> paid,
                          fee_refunded |-> tx.fee - paid ])]

\* What a successful run adds: the value moves, then the run's balance
\* changes and its storage are kept.
Completed(tx, settled, run) ==
    LET valued == ValueMoved(tx, settled.balances)
    IN  [settled EXCEPT !.balances = [a \in Accounts |-> valued[a] + run.changes[a]],
                        !.storage[tx.receiver] = run.storage]

\* Any other run only costs its fee.
AfterRun(tx, ledger, run) ==
    IF KeepsRun(run) THEN Completed(tx, Settled(tx, ledger, run), run)
                     ELSE Settled(tx, ledger, run)

ApplyTransaction(tx, ledger, height) ==
    LET charged == Charged(tx, ledger, tx.fee + tx.amount)
        key     == <<tx.sender, tx.data.request>>
    IN  CASE tx.kind = "reward" ->
                [ledger EXCEPT !.balances[tx.receiver] = @ + tx.amount]
          [] tx.kind = "transfer" ->
                [charged EXCEPT !.balances[tx.receiver] = @ + tx.amount]
          [] tx.kind = "commit" ->
                [charged EXCEPT !.commitments = With(@, key, tx.data.hash)]
          [] tx.kind = "reveal" ->
                [charged EXCEPT !.reveals = With(@, key, tx.data.seed)]
          [] tx.kind = "authorize" ->
                [charged EXCEPT !.authorizations =
                    Append(@, [ wallet |-> tx.sender, contract |-> tx.receiver,
                                code_hash |-> Lower(tx.data.code_hash),
                                request |-> tx.data.request,
                                from |-> tx.data.from, until |-> tx.data.until ])]
          [] tx.kind = "deploy" ->
                [charged EXCEPT !.contracts =
                    With(@, tx.receiver, [code |-> tx.data.code, code_hash |-> tx.data.code_hash])]
          [] tx.kind = "execute" ->
                AfterRun(tx, ledger, Execution(tx, ledger, height))

----------------------------------------------------------------------------
(* Sequences of transactions.                                              *)

\* Those of txs that are not in known, in their order.
Without(txs, known) ==
    LET upTo[n \in 0 .. Len(txs)] ==
            IF n = 0
            THEN << >>
            ELSE IF txs[n] \in known THEN upTo[n - 1] ELSE Append(upTo[n - 1], txs[n])
    IN  upTo[Len(txs)]

\* Apply them in order; ok is whether every one of them applied.
ApplyInOrder(txs, ledger, height) ==
    LET after[i \in 0 .. Len(txs)] ==
            IF i = 0
            THEN [ok |-> TRUE, ledger |-> ledger, fees |-> 0]
            ELSE LET prev == after[i - 1]
                 IN  IF prev.ok /\ CanApply(txs[i], prev.ledger)
                     THEN [ ok     |-> TRUE,
                            ledger |-> ApplyTransaction(txs[i], prev.ledger, height),
                            fees   |-> prev.fees + FeePaid(txs[i], prev.ledger, height) ]
                     ELSE [prev EXCEPT !.ok = FALSE]
    IN  after[Len(txs)]

\* Go through them once and keep those that apply after the ones kept
\* before, up to limit of them.
KeepApplicable(txs, ledger, height, limit) ==
    LET after[i \in 0 .. Len(txs)] ==
            IF i = 0
            THEN [kept |-> << >>, rest |-> << >>, ledger |-> ledger]
            ELSE LET prev == after[i - 1]
                     tx   == txs[i]
                 IN  IF Len(prev.kept) < limit /\ CanApply(tx, prev.ledger)
                     THEN [prev EXCEPT !.kept = Append(@, tx),
                                       !.ledger = ApplyTransaction(tx, prev.ledger, height)]
                     ELSE [prev EXCEPT !.rest = Append(@, tx)]
    IN  after[Len(txs)]

=============================================================================
