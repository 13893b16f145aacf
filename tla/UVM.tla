-------------------------------- MODULE UVM --------------------------------
(***************************************************************************)
(* The UncCoin virtual machine (core/uvm.py).                              *)
(*                                                                         *)
(* A contract run is a loop that charges the gas of the next instruction   *)
(* and then performs it, until the program ends, halts, reverts, fails or  *)
(* cannot pay for its next instruction.  The loop is a state machine: vm   *)
(* holds what the Python function keeps in local variables, and one step   *)
(* of Next is one turn of the loop.  Run(program, ctx) is the same loop as *)
(* a function, which is how the ledger calls it.                           *)
(*                                                                         *)
(* Words are 0 .. WordModulus-1, the code's 0 .. 2^256-1.  An instruction  *)
(* is [op, args]; an operand of the wrong type is represented by a wrong   *)
(* number of operands, which fails the same way.  Mappings whose missing   *)
(* keys read as zero (memory, storage, balances) are total functions.      *)
(* Where a run stops and what it had on its stack only reach its receipt's *)
(* text and are left out.                                                  *)
(***************************************************************************)
EXTENDS Integers, Sequences, FiniteSetsExt

CONSTANTS
    Accounts,       \* addresses that can hold coins: wallets and contracts
    Keys,           \* keys of memory and of a contract's storage
    Requests,       \* request ids
    WordBits,       \* width of a word; 256 in the code
    MaxStackItems,  \* UVM_MAX_STACK_ITEMS
    SelfAddress,    \* CONTRACT_SELF_ADDRESS, the operand "$CONTRACT"
    AddressWord,    \* account -> word: the number its hexadecimal text denotes
    Sha256          \* word -> word: the digest of a word, as a word

WordModulus == 2 ^ WordBits
Word == 0 .. WordModulus - 1

ASSUME AccountsFinite == IsFiniteSet(Accounts)
ASSUME WordBitsAssumption == WordBits \in Nat \ {0}
ASSUME PowersAssumption == \A n \in 0 .. WordBits : 2 ^ n \in Nat /\ n < 2 ^ n
ASSUME MaxStackAssumption == MaxStackItems \in Nat \ {0}
ASSUME SelfAssumption == SelfAddress \notin Accounts
ASSUME AddressWordAssumption == AddressWord \in [Accounts -> Word]
ASSUME Sha256Assumption == Sha256 \in [Word -> Word]

----------------------------------------------------------------------------
(* The instruction set.                                                    *)

GasCosts ==
    [ PUSH |-> 1, POP |-> 1, DUP |-> 2, SWAP |-> 2,
      ADD |-> 3, SUB |-> 3, MUL |-> 5, DIV |-> 5, MOD |-> 5,
      EQ |-> 2, LT |-> 2, GT |-> 2, AND |-> 3, OR |-> 3, XOR |-> 3, NOT |-> 2,
      SHA256 |-> 20, MEM_LOAD |-> 3, MEM_STORE |-> 5,
      READ_METADATA |-> 10, READ_INPUT |-> 10, LOAD |-> 25, STORE |-> 100,
      READ_COMMIT |-> 30, READ_REVEAL |-> 30, HAS_REVEAL |-> 10,
      TRANSFER_FROM |-> 50, HAS_AUTH |-> 20, REQUIRE_AUTH |-> 20,
      BLOCK_HEIGHT |-> 2, TX_SENDER |-> 2, JUMP |-> 3, JUMPI |-> 5,
      HALT |-> 0, REVERT |-> 0 ]

BinaryOps == {"ADD", "SUB", "MUL", "DIV", "MOD", "EQ", "LT", "GT", "AND", "OR", "XOR"}

Arity(op) ==
    CASE op \in {"PUSH", "MEM_LOAD", "MEM_STORE", "READ_METADATA", "READ_INPUT",
                 "LOAD", "STORE", "JUMP", "JUMPI"} -> 1
      [] op \in {"READ_COMMIT", "READ_REVEAL", "HAS_REVEAL", "HAS_AUTH",
                 "REQUIRE_AUTH"} -> 2
      [] op = "TRANSFER_FROM" -> 3
      [] OTHER -> 0

\* All the amounts together.
Total(amounts) == MapThenSumSet(LAMBDA a : amounts[a], DOMAIN amounts)

\* Exclusive or, bit by bit.
Xor(l, r) ==
    Total([i \in 0 .. WordBits - 1 |-> 2^i * ((l \div 2^i + r \div 2^i) % 2)])

Flag(condition) == IF condition THEN 1 ELSE 0

\* The value of a two-operand instruction; _push reduces it to a word.
BinaryResult(op, l, r) ==
    CASE op = "ADD" -> l + r
      [] op = "SUB" -> l - r
      [] op = "MUL" -> l * r
      [] op = "DIV" -> l \div r
      [] op = "MOD" -> l % r
      [] op = "EQ"  -> Flag(l = r)
      [] op = "LT"  -> Flag(l < r)
      [] op = "GT"  -> Flag(l > r)
      [] op = "AND" -> Flag(l # 0 /\ r # 0)
      [] op = "OR"  -> Flag(l # 0 \/ r # 0)
      [] op = "XOR" -> Xor(l, r)

\* An instruction of parse_uvm_program: operands of the kind its opcode takes,
\* or too few or too many of them.
IsInstruction(ins) ==
    ins.op \in DOMAIN GasCosts /\ Len(ins.args) = Arity(ins.op) =>
        CASE ins.op \in {"PUSH", "JUMP", "JUMPI"} -> ins.args[1] \in Int
          [] ins.op \in {"MEM_LOAD", "MEM_STORE", "LOAD", "STORE"} -> ins.args[1] \in Keys
          [] ins.op = "TRANSFER_FROM" ->
                \A i \in 1 .. 2 : ins.args[i] \in Accounts \cup {SelfAddress}
          [] OTHER -> TRUE

IsProgram(program) ==
    Len(program) \in Nat /\ \A i \in 1 .. Len(program) : IsInstruction(program[i])

----------------------------------------------------------------------------
(* The machine's state and the context it runs in.                         *)
(*   ctx.sender, ctx.contract   accounts                                   *)
(*   ctx.gas_limit, ctx.height  naturals                                   *)
(*   ctx.balances, ctx.storage  the ledger's, before the run               *)
(*   ctx.commitments            <<wallet, request>> -> integer, partial    *)
(*   ctx.reveals                <<wallet, request>> -> seed, partial       *)
(*   ctx.authorized             the pairs <<wallet, request>> authorized   *)
(*   ctx.metadata, ctx.input    key -> value, partial                      *)
(* Seeds and values that are not integers can be there and not be read.    *)

IsContext(ctx) ==
    /\ ctx.sender \in Accounts /\ ctx.contract \in Accounts
    /\ ctx.gas_limit \in Nat /\ ctx.height \in Nat
    /\ ctx.balances \in [Accounts -> Int]
    /\ ctx.storage \in [Keys -> Word]
    /\ \A pair \in DOMAIN ctx.commitments : ctx.commitments[pair] \in Int

Start(ctx) ==
    [ pc       |-> 0,
      gas      |-> ctx.gas_limit,
      stack    |-> << >>,
      memory   |-> [k \in Keys |-> 0],
      storage  |-> [k \in Keys |-> ctx.storage[k] % WordModulus],
      balances |-> ctx.balances,
      changes  |-> [a \in Accounts |-> 0],
      status   |-> "running" ]

Running(vm) == vm.status = "running"
Stop(vm, status) == [vm EXCEPT !.status = status]
Fail(vm) == Stop(vm, "failed")

Top(vm, n) == vm.stack[Len(vm.stack) - n]
Dropped(vm, n) == [vm EXCEPT !.stack = SubSeq(@, 1, Len(@) - n)]

\* Mutant of Pushed: the value is pushed as it is.
PushedUnreduced(vm, value) ==
    IF Len(vm.stack) >= MaxStackItems THEN Fail(vm) ELSE [vm EXCEPT !.stack = Append(@, value)]

\* _push: a full stack fails the run, a value is reduced to a word.
Pushed(vm, value) ==
    IF Len(vm.stack) >= MaxStackItems
    THEN Fail(vm)
    ELSE [vm EXCEPT !.stack = Append(@, value % WordModulus)]

\* Replace the top n items by one value.
Reduced(vm, n, value) ==
    IF Len(vm.stack) < n THEN Fail(vm) ELSE Pushed(Dropped(vm, n), value)

Account(operand, ctx) == IF operand = SelfAddress THEN ctx.contract ELSE operand

IsAuthorized(ctx, wallet, request) == <<wallet, request>> \in ctx.authorized

\* TRANSFER_FROM: the sender's and the contract's own coins need no
\* authorization, those of any other wallet do.
MayDebit(ctx, source, request) ==
    \/ source \in {ctx.sender, ctx.contract}
    \/ IsAuthorized(ctx, source, request)

\* Mutant of Moved: both new amounts are computed before either is written.
MovedAtOnce(amounts, source, receiver, amount) ==
    [amounts EXCEPT ![source] = @ - amount, ![receiver] = amounts[receiver] + amount]

\* A mapping after the transfer; source and receiver may be the same account.
Moved(amounts, source, receiver, amount) ==
    [[amounts EXCEPT ![source] = @ - amount] EXCEPT ![receiver] = @ + amount]

CanDebit(vm, source, amount) == vm.balances[source] >= amount

TransferCoins(ins, ctx, vm) ==
    IF Len(vm.stack) < 1
    THEN Fail(vm)
    ELSE LET source   == Account(ins.args[1], ctx)
             receiver == Account(ins.args[2], ctx)
             amount   == Top(vm, 0)
             popped   == Dropped(vm, 1)
         IN  IF /\ amount > 0
                /\ MayDebit(ctx, source, ins.args[3])
                /\ CanDebit(vm, source, amount)
             THEN [popped EXCEPT !.balances = Moved(@, source, receiver, amount),
                                 !.changes  = Moved(@, source, receiver, amount)]
             ELSE Fail(popped)

\* There is a value, and it is an integer.
Reads(mapping, key) == key \in DOMAIN mapping /\ mapping[key] \in Int

JumpTo(vm, target, length) ==
    IF target \in 0 .. length - 1 THEN [vm EXCEPT !.pc = target] ELSE Fail(vm)

----------------------------------------------------------------------------
(* _execute_instruction: the effect of one instruction on the machine,     *)
(* whose pc already points at the next one.                                *)

Perform(ins, ctx, vm, length) ==
    LET op   == ins.op
        args == ins.args
        pair == <<args[1], args[2]>>
    IN  IF Len(args) # Arity(op) THEN Fail(vm) ELSE
        CASE op = "PUSH"      -> Pushed(vm, args[1])
          [] op = "POP"       -> IF vm.stack = << >> THEN Fail(vm) ELSE Dropped(vm, 1)
          [] op = "DUP"       -> IF vm.stack = << >> THEN Fail(vm) ELSE Pushed(vm, Top(vm, 0))
          [] op = "SWAP"      -> IF Len(vm.stack) < 2
                                 THEN Fail(vm)
                                 ELSE [vm EXCEPT !.stack = Dropped(vm, 2).stack
                                                             \o <<Top(vm, 0), Top(vm, 1)>>]
          [] op \in BinaryOps ->
                IF \/ Len(vm.stack) < 2
                   \/ op \in {"DIV", "MOD"} /\ Top(vm, 0) = 0
                THEN Fail(vm)
                ELSE Reduced(vm, 2, BinaryResult(op, Top(vm, 1), Top(vm, 0)))
          [] op = "NOT"       -> Reduced(vm, 1, Flag(Top(vm, 0) = 0))
          [] op = "SHA256"    -> Reduced(vm, 1, Sha256[Top(vm, 0)])
          [] op = "MEM_LOAD"  -> Pushed(vm, vm.memory[args[1]])
          [] op = "MEM_STORE" -> IF vm.stack = << >>
                                 THEN Fail(vm)
                                 ELSE [Dropped(vm, 1) EXCEPT !.memory[args[1]] = Top(vm, 0)]
          [] op = "LOAD"      -> Pushed(vm, vm.storage[args[1]])
          [] op = "STORE"     -> IF vm.stack = << >>
                                 THEN Fail(vm)
                                 ELSE [Dropped(vm, 1) EXCEPT !.storage[args[1]] = Top(vm, 0)]
          [] op = "READ_METADATA" -> IF Reads(ctx.metadata, args[1])
                                     THEN Pushed(vm, ctx.metadata[args[1]])
                                     ELSE Fail(vm)
          [] op = "READ_INPUT"    -> IF Reads(ctx.input, args[1])
                                     THEN Pushed(vm, ctx.input[args[1]])
                                     ELSE Fail(vm)
          [] op = "READ_COMMIT"   -> IF IsAuthorized(ctx, args[1], args[2])
                                        /\ pair \in DOMAIN ctx.commitments
                                     THEN Pushed(vm, ctx.commitments[pair])
                                     ELSE Fail(vm)
          [] op = "READ_REVEAL"   -> IF Reads(ctx.reveals, pair)
                                     THEN Pushed(vm, ctx.reveals[pair])
                                     ELSE Fail(vm)
          [] op = "HAS_REVEAL"    -> Pushed(vm, Flag(pair \in DOMAIN ctx.reveals))
          [] op = "HAS_AUTH"      -> Pushed(vm, Flag(IsAuthorized(ctx, args[1], args[2])))
          [] op = "REQUIRE_AUTH"  -> IF IsAuthorized(ctx, args[1], args[2]) THEN vm ELSE Fail(vm)
          [] op = "TRANSFER_FROM" -> TransferCoins(ins, ctx, vm)
          [] op = "BLOCK_HEIGHT"  -> Pushed(vm, ctx.height)
          [] op = "TX_SENDER"     -> Pushed(vm, AddressWord[ctx.sender])
          [] op = "JUMP"          -> JumpTo(vm, args[1], length)
          [] op = "JUMPI"         -> IF args[1] \notin 0 .. length - 1 \/ vm.stack = << >>
                                     THEN Fail(vm)
                                     ELSE IF Top(vm, 0) # 0
                                          THEN JumpTo(Dropped(vm, 1), args[1], length)
                                          ELSE Dropped(vm, 1)
          [] op = "HALT"          -> Stop(vm, "succeeded")
          [] op = "REVERT"        -> Stop(vm, "reverted")

\* Mutant of Cost: jumps are free.
CostWithoutJumps(ins) == IF ins.op = "JUMP" THEN 0 ELSE GasCosts[ins.op]

Cost(ins) == GasCosts[ins.op]

\* One turn of the loop of execute_uvm_program.
Step(program, ctx, vm) ==
    IF vm.pc >= Len(program)
    THEN Stop(vm, "succeeded")
    ELSE LET ins == program[vm.pc + 1]
         IN  IF ins.op \notin DOMAIN GasCosts
             THEN Fail(vm)
             ELSE IF vm.gas < Cost(ins)
                  THEN [vm EXCEPT !.gas = 0, !.status = "out_of_gas"]
                  ELSE Perform(ins, ctx,
                               [vm EXCEPT !.gas = @ - Cost(ins), !.pc = @ + 1],
                               Len(program))

MachineStates ==
    [ pc : Nat, gas : Nat, stack : Seq(Word), memory : [Keys -> Word],
      storage : [Keys -> Word], balances : [Accounts -> Int],
      changes : [Accounts -> Int],
      status : {"running", "succeeded", "reverted", "failed", "out_of_gas"} ]

\* execute_uvm_program.  Every turn but the last costs gas, so the loop ends.
Run(program, ctx) ==
    LET final[vm \in MachineStates] ==
            IF Running(vm) THEN final[Step(program, ctx, vm)] ELSE vm
    IN  final[Start(ctx)]

=============================================================================
