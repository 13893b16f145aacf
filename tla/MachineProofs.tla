--------------------------- MODULE MachineProofs ---------------------------
(***************************************************************************)
(* The machine of UVMMachine.tla conserves coins and spends gas, for any   *)
(* calls; the NFT template of NftContract.tla does what it promises, for   *)
(* any owner, sender and recipient.                                        *)
(***************************************************************************)
EXTENDS NftContract, UVMProofs

----------------------------------------------------------------------------
(* Any program.                                                            *)

\* One of the calls, and a run of it so far.
SoundCall ==
    /\ IsProgram(program) /\ IsContext(ctx)
    /\ SoundRun(vm, ctx)

LEMMA InitSoundCall == Init => SoundCall
BY CallsAssumption, StartSound DEF Init, SoundCall

LEMMA NextSoundCall ==
    ASSUME SoundCall, [Next]_vars
    PROVE  SoundCall'
<1>1. CASE Turn
  <2>1. SoundRun(Step(program, ctx, vm), ctx)
    BY <1>1, StepEffect DEF Turn, SoundCall, SoundRun
  <2> QED BY <1>1, <2>1 DEF Turn, SoundCall
<1>2. CASE UNCHANGED vars
  BY <1>2 DEF vars, SoundCall
<1> QED BY <1>1, <1>2 DEF Next

\* A run moves coins between accounts and makes none, overdraws nobody, and
\* debits nobody but the sender, the contract and the authorized wallets.
THEOREM RunsAreSound == Spec => []SoundCall
BY InitSoundCall, NextSoundCall, PTL DEF Spec

\* The changes of a run add up to zero.
THEOREM CoinsAreConserved == Spec => []ChangesConserveCoins
<1>1. SoundCall => ChangesConserveCoins
  BY DEF SoundCall, SoundRun, MovesCoins, ChangesConserveCoins
<1> QED BY <1>1, RunsAreSound, PTL

\* A turn after which the machine still runs has spent gas, and no turn gives
\* any back: why every run ends, whatever the program jumps to.
GasIsSpent == vm'.gas <= vm.gas /\ (Running(vm') => vm'.gas < vm.gas)

THEOREM TurnsSpendGas == Spec => [][GasIsSpent]_vars
<1>1. ASSUME SoundCall, Turn PROVE GasIsSpent
  BY <1>1, StepEffect DEF Turn, SoundCall, SoundRun, GasIsSpent
<1> QED BY <1>1, RunsAreSound, PTL DEF Spec, Next

----------------------------------------------------------------------------
(* The NFT template.  One step of a lemma for each of its instructions.    *)

\* The machine w is m with another stack.
Restacked(w, m) ==
    /\ w \in MachineStates
    /\ w.status = m.status /\ w.pc = m.pc /\ w.gas = m.gas /\ w.storage = m.storage

Stack0(m) == Len(m.stack) = 0
Stack1(m, a) == Len(m.stack) = 1 /\ m.stack[1] = a
Stack2(m, a, b) == Len(m.stack) = 2 /\ m.stack[1] = a /\ m.stack[2] = b

LEMMA PushedOn ==
    ASSUME NEW m \in MachineStates, NEW value \in Int, Len(m.stack) <= 1
    PROVE  LET w == Pushed(m, value)
               word == value % WordModulus
           IN  /\ Restacked(w, m)
               /\ Stack0(m) => Stack1(w, word)
               /\ \A a : Stack1(m, a) => Stack2(w, a, word)
<1> DEFINE word == value % WordModulus
<1>1. word \in Word
  BY ReducedToWord
<1> HIDE DEF word
<1>2. Pushed(m, value) = [m EXCEPT !.stack = Append(@, word)]
  BY TwoItemsAssumption, MaxStackAssumption DEF Pushed, MachineStates, word
<1>3. m.stack \in Seq(Word) /\ Append(m.stack, word) \in Seq(Word)
  BY <1>1 DEF MachineStates
<1> DEFINE w == [m EXCEPT !.stack = Append(@, word)]
<1>4. w.stack = Append(m.stack, word) /\ Restacked(w, m)
  BY <1>3 DEF MachineStates, Restacked
<1> HIDE DEF w
<1>5. Stack0(m) => Stack1(w, word)
  BY <1>1, <1>3, <1>4 DEF Stack0, Stack1
<1>6. \A a : Stack1(m, a) => Stack2(w, a, word)
  BY <1>1, <1>3, <1>4 DEF Stack1, Stack2
<1> QED BY <1>2, <1>4, <1>5, <1>6 DEF w, word

LEMMA DroppedFrom ==
    ASSUME NEW m \in MachineStates, NEW n \in Nat, n <= Len(m.stack)
    PROVE  LET w == Dropped(m, n)
           IN  /\ Restacked(w, m)
               /\ \A a : Stack1(m, a) /\ n = 1 => Stack0(w)
               /\ \A a, b : Stack2(m, a, b) /\ n = 1 => Stack1(w, a)
               /\ \A a, b : Stack2(m, a, b) /\ n = 2 => Stack0(w)
<1> DEFINE rest == SubSeq(m.stack, 1, Len(m.stack) - n)
<1>1. m.stack \in Seq(Word) /\ Len(m.stack) \in Nat
  BY DEF MachineStates
<1>2. /\ rest \in Seq(Word) /\ Len(rest) = Len(m.stack) - n
      /\ \A i \in 1 .. Len(m.stack) - n : rest[i] = m.stack[i]
  BY <1>1
<1> HIDE DEF rest
<1>3. Dropped(m, n) = [m EXCEPT !.stack = rest]
  BY DEF Dropped, rest
<1> DEFINE w == [m EXCEPT !.stack = rest]
<1>4. w.stack = rest /\ Restacked(w, m)
  BY <1>2 DEF MachineStates, Restacked
<1> HIDE DEF w
<1>5. \A a : Stack1(m, a) /\ n = 1 => Stack0(w)
  BY <1>2, <1>4 DEF Stack0, Stack1
<1>6. \A a, b : Stack2(m, a, b) /\ n = 1 => Stack1(w, a)
  BY <1>2, <1>4 DEF Stack1, Stack2
<1>7. \A a, b : Stack2(m, a, b) /\ n = 2 => Stack0(w)
  BY <1>2, <1>4 DEF Stack0, Stack2
<1> QED BY <1>3, <1>4, <1>5, <1>6, <1>7 DEF w

\* The machine at an instruction, having spent at most so much gas.
At(m, pc, spent) ==
    /\ m \in MachineStates
    /\ Running(m)
    /\ m.pc = pc
    /\ m.gas >= ctx.gas_limit - spent

\* The machine has paid for an instruction and points at the next one.
Charged(m, ins) == [m EXCEPT !.gas = @ - Cost(ins), !.pc = @ + 1]

LEMMA ChargedAt ==
    ASSUME IsContext(ctx), NEW ins, ins.op \in DOMAIN GasCosts, NEW m, NEW pc \in Nat,
           NEW spent \in Nat, At(m, pc, spent), m.gas >= Cost(ins)
    PROVE  LET c == Charged(m, ins)
           IN  /\ At(c, pc + 1, spent + Cost(ins))
               /\ c.stack = m.stack /\ c.storage = m.storage
<1>1. Cost(ins) \in Nat /\ m.gas \in Nat /\ ctx.gas_limit \in Nat
  BY CostType DEF At, MachineStates, IsContext
<1> DEFINE gas == m.gas - Cost(ins)
<1>2. gas \in Nat /\ gas >= ctx.gas_limit - (spent + Cost(ins)) /\ pc + 1 \in Nat
  BY <1>1 DEF At
<1> HIDE DEF gas
<1>3. Charged(m, ins) = [m EXCEPT !.gas = gas, !.pc = pc + 1]
  BY DEF Charged, At, gas
<1> DEFINE c == [m EXCEPT !.gas = gas, !.pc = pc + 1]
<1>4. c \in MachineStates /\ c.gas = gas /\ c.pc = pc + 1
  BY <1>2 DEF At, MachineStates
<1>5. c.stack = m.stack /\ c.storage = m.storage /\ c.status = m.status
  BY DEF At, MachineStates
<1> HIDE DEF c
<1> QED BY <1>2, <1>3, <1>4, <1>5 DEF At, Running, c

----------------------------------------------------------------------------

LEMMA NftInstructions ==
    /\ Len(NftProgram) = 15
    /\ NftProgram[1] = I1("LOAD", "owner")
    /\ NftProgram[2] = I1("JUMPI", 4)
    /\ NftProgram[3] = I1("READ_METADATA", "initial_owner")
    /\ NftProgram[4] = I1("STORE", "owner")
    /\ NftProgram[5] = I1("LOAD", "owner")
    /\ NftProgram[6] = I("TX_SENDER")
    /\ NftProgram[7] = I("EQ")
    /\ NftProgram[8] = I1("JUMPI", 9)
    /\ NftProgram[9] = I("REVERT")
    /\ NftProgram[10] = I1("READ_INPUT", "recipient")
    /\ NftProgram[11] = I("DUP")
    /\ NftProgram[12] = I1("JUMPI", 13)
    /\ NftProgram[13] = I("REVERT")
    /\ NftProgram[14] = I1("STORE", "owner")
    /\ NftProgram[15] = I("HALT")
BY DEF NftProgram, NftTemplate

\* What the instructions of the template cost and do.
LEMMA OneOperand ==
    ASSUME NEW op \in {"LOAD", "STORE", "JUMPI", "READ_METADATA", "READ_INPUT"}, NEW arg
    PROVE  /\ I1(op, arg).op = op /\ op \in DOMAIN GasCosts
           /\ I1(op, arg).args[1] = arg
           /\ Len(I1(op, arg).args) = Arity(op)
BY DEF I1, Arity, GasCosts

LEMMA NoOperand ==
    ASSUME NEW op \in {"TX_SENDER", "EQ", "DUP", "REVERT", "HALT"}
    PROVE  /\ I(op).op = op /\ op \in DOMAIN GasCosts
           /\ Len(I(op).args) = Arity(op)
BY DEF I, Arity, GasCosts

LEMMA NftCosts ==
    /\ GasCosts["LOAD"] = 25 /\ GasCosts["STORE"] = 100 /\ GasCosts["JUMPI"] = 5
    /\ GasCosts["READ_METADATA"] = 10 /\ GasCosts["READ_INPUT"] = 10
    /\ GasCosts["TX_SENDER"] = 2 /\ GasCosts["EQ"] = 2 /\ GasCosts["DUP"] = 2
    /\ GasCosts["REVERT"] = 0 /\ GasCosts["HALT"] = 0
BY DEF GasCosts

LEMMA LoadDoes ==
    ASSUME NEW c, NEW m, NEW length, NEW arg
    PROVE  Perform(I1("LOAD", arg), c, m, length) =
           Pushed(m, m.storage[arg])
BY OneOperand DEF Perform, BinaryOps

LEMMA StoreDoes ==
    ASSUME NEW c, NEW m, NEW length, NEW arg
    PROVE  Perform(I1("STORE", arg), c, m, length) =
           IF m.stack = << >> THEN Fail(m)
           ELSE [Dropped(m, 1) EXCEPT !.storage[arg] = Top(m, 0)]
BY OneOperand DEF Perform, BinaryOps

LEMMA JumpDoes ==
    ASSUME NEW c, NEW m, NEW length, NEW arg
    PROVE  Perform(I1("JUMPI", arg), c, m, length) =
           IF arg \notin 0 .. length - 1 \/ m.stack = << >> THEN Fail(m)
           ELSE IF Top(m, 0) # 0 THEN JumpTo(Dropped(m, 1), arg, length)
           ELSE Dropped(m, 1)
BY OneOperand DEF Perform, BinaryOps

LEMMA MetadataDoes ==
    ASSUME NEW c, NEW m, NEW length, NEW arg
    PROVE  Perform(I1("READ_METADATA", arg), c, m, length) =
           IF Reads(c.metadata, arg) THEN Pushed(m, c.metadata[arg]) ELSE Fail(m)
BY OneOperand DEF Perform, BinaryOps

LEMMA InputDoes ==
    ASSUME NEW c, NEW m, NEW length, NEW arg
    PROVE  Perform(I1("READ_INPUT", arg), c, m, length) =
           IF Reads(c.input, arg) THEN Pushed(m, c.input[arg]) ELSE Fail(m)
BY OneOperand DEF Perform, BinaryOps

LEMMA SenderDoes ==
    ASSUME NEW c, NEW m, NEW length
    PROVE  Perform(I("TX_SENDER"), c, m, length) =
           Pushed(m, AddressWord[c.sender])
BY NoOperand DEF Perform, BinaryOps

LEMMA EqDoes ==
    ASSUME NEW c, NEW m, NEW length
    PROVE  Perform(I("EQ"), c, m, length) =
           IF Len(m.stack) < 2 THEN Fail(m)
           ELSE Reduced(m, 2, Flag(Top(m, 1) = Top(m, 0)))
BY NoOperand DEF Perform, BinaryOps, BinaryResult

LEMMA DupDoes ==
    ASSUME NEW c, NEW m, NEW length
    PROVE  Perform(I("DUP"), c, m, length) =
           IF m.stack = << >> THEN Fail(m) ELSE Pushed(m, Top(m, 0))
BY NoOperand DEF Perform, BinaryOps

LEMMA RevertDoes ==
    ASSUME NEW c, NEW m, NEW length
    PROVE  Perform(I("REVERT"), c, m, length) =
           Stop(m, "reverted")
BY NoOperand DEF Perform, BinaryOps

LEMMA HaltDoes ==
    ASSUME NEW c, NEW m, NEW length
    PROVE  Perform(I("HALT"), c, m, length) =
           Stop(m, "succeeded")
BY NoOperand DEF Perform, BinaryOps

----------------------------------------------------------------------------

\* The most gas a run of the template has spent before each instruction.
NftSpent == <<0, 25, 30, 40, 140, 165, 167, 169, 174, 174, 184, 186, 191, 191, 291>>

\* What the template has found out, and has on its stack, at each instruction.
NftFacts(m, pc) ==
    LET stored == ctx.storage["owner"]
        owner  == m.storage["owner"]
        me     == AddressWord[ctx.sender]
    IN  /\ pc = 0  => Stack0(m) /\ owner = stored
        /\ pc = 1  => Stack1(m, stored) /\ owner = stored
        /\ pc = 2  => Stack0(m) /\ stored = 0
        /\ pc = 3  => Stack1(m, OwnerBefore) /\ HasOwner
        /\ pc = 4  => Stack0(m) /\ owner = OwnerBefore /\ HasOwner
        /\ pc = 5  => Stack1(m, OwnerBefore) /\ HasOwner
        /\ pc = 6  => Stack2(m, OwnerBefore, me) /\ HasOwner
        /\ pc = 7  => Stack1(m, Flag(OwnerBefore = me)) /\ HasOwner
        /\ pc = 8  => me # OwnerBefore
        /\ pc \in 9 .. 14 => me = OwnerBefore /\ HasOwner
        /\ pc = 9  => Stack0(m)
        /\ pc \in 10 .. 14 => HasRecipient
        /\ pc \in {10, 13} => Stack1(m, Recipient)
        /\ pc = 11 => Stack2(m, Recipient, Recipient)
        /\ pc = 12 => Recipient = 0
        /\ pc \in {13, 14} => Recipient # 0
        /\ pc = 14 => owner = Recipient

\* How a run of the template ends.
NftEnd(m) ==
    /\ m \in MachineStates /\ ~Running(m)
    /\ m.status = "succeeded" =>
          /\ HasOwner /\ AddressWord[ctx.sender] = OwnerBefore
          /\ HasRecipient /\ m.storage["owner"] = Recipient
          /\ m.storage["owner"] # 0
    /\ m.status = "failed" => ~(HasOwner /\ HasRecipient)
    /\ m.status = "reverted" => AddressWord[ctx.sender] # OwnerBefore \/ Recipient = 0
    /\ m.status = "out_of_gas" => ctx.gas_limit < NftTransferGasLimit

NftHolds(m) ==
    \/ NftEnd(m)
    \/ \E pc \in 0 .. 14 : At(m, pc, NftSpent[pc + 1]) /\ NftFacts(m, pc)

LEMMA NftSpentType ==
    \A pc \in 0 .. 14 : NftSpent[pc + 1] \in Nat /\ NftSpent[pc + 1] <= 291
BY DEF NftSpent

\* A turn of the template: it runs dry, or performs the instruction it is at.
LEMMA NftTurn ==
    ASSUME IsContext(ctx), NEW pc \in 0 .. 14, At(vm, pc, NftSpent[pc + 1]), NEW ins,
           NftProgram[pc + 1] = ins, ins.op \in DOMAIN GasCosts, Cost(ins) <= 100,
           ~NftEnd(Step(NftProgram, ctx, vm))
    PROVE  LET c == Charged(vm, ins)
           IN  /\ Step(NftProgram, ctx, vm) = Perform(ins, ctx, c, 15)
               /\ At(c, pc + 1, NftSpent[pc + 1] + Cost(ins))
               /\ c.stack = vm.stack /\ c.storage = vm.storage
<1>1. /\ vm.gas \in Nat /\ vm.pc = pc /\ ctx.gas_limit \in Nat /\ Len(NftProgram) = 15
      /\ vm \in MachineStates
  BY NftInstructions DEF At, MachineStates, IsContext
<1>2. Cost(ins) \in Nat /\ NftSpent[pc + 1] \in Nat /\ NftSpent[pc + 1] <= 291
  BY CostType, NftSpentType
<1>3. ~(vm.gas < Cost(ins))
  <2> SUFFICES ASSUME vm.gas < Cost(ins) PROVE FALSE
    OBVIOUS
  <2> DEFINE w == [vm EXCEPT !.gas = 0, !.status = "out_of_gas"]
  <2>1. Step(NftProgram, ctx, vm) = w
    BY <1>1 DEF Step
  <2>2. w \in MachineStates /\ w.status = "out_of_gas"
    BY <1>1 DEF MachineStates
  <2>3. ctx.gas_limit < NftTransferGasLimit
    BY <1>1, <1>2 DEF At, NftTransferGasLimit
  <2> HIDE DEF w
  <2> QED BY <2>1, <2>2, <2>3 DEF NftEnd, Running
<1>4. Step(NftProgram, ctx, vm) = Perform(ins, ctx, Charged(vm, ins), 15)
  <2>1. NftProgram[vm.pc + 1] = ins /\ vm.pc \in Nat /\ vm.pc < Len(NftProgram)
    BY <1>1
  <2>2. Step(NftProgram, ctx, vm) = Perform(ins, ctx, Charged(vm, ins), Len(NftProgram))
    BY <1>3, <2>1 DEF Step, Charged
  <2> QED BY <1>1, <2>2
<1> QED BY <1>1, <1>2, <1>3, <1>4, ChargedAt

\* The machine is at the next instruction with what holds there.
LEMMA NftArrives ==
    ASSUME NEW m, NEW pc \in 0 .. 14, NEW spent \in Nat, At(m, pc, spent),
           IsContext(ctx), spent <= NftSpent[pc + 1], NftFacts(m, pc)
    PROVE  NftHolds(m)
<1>1. m.gas \in Nat /\ ctx.gas_limit \in Nat /\ NftSpent[pc + 1] \in Nat
  BY NftSpentType DEF At, IsContext, MachineStates
<1>2. At(m, pc, NftSpent[pc + 1])
  BY <1>1 DEF At
<1> QED BY <1>2 DEF NftHolds

LEMMA TopOfStack ==
    ASSUME NEW m \in MachineStates
    PROVE  /\ \A a : Stack1(m, a) => m.stack # << >> /\ Top(m, 0) = a
           /\ \A a, b : Stack2(m, a, b) => m.stack # << >> /\ Top(m, 0) = b /\ Top(m, 1) = a
<1>1. m.stack # << >> <=> Len(m.stack) # 0
  BY DEF MachineStates
<1>2. Len(m.stack) = 1 => Top(m, 0) = m.stack[1]
  BY DEF Top
<1>3. Len(m.stack) = 2 => Top(m, 0) = m.stack[2] /\ Top(m, 1) = m.stack[1]
  BY DEF Top
<1> QED BY <1>1, <1>2, <1>3 DEF Stack1, Stack2

\* The words a run of the template handles.
LEMMA NftWords ==
    ASSUME IsContext(ctx)
    PROVE  /\ ctx.storage["owner"] \in Word /\ AddressWord[ctx.sender] \in Word
           /\ HasOwner => OwnerBefore \in Word
           /\ HasRecipient => Recipient \in Word
           /\ 0 \in Word /\ \A w \in Word : w \in Int /\ w % WordModulus = w
           /\ \A c : Flag(c) \in {0, 1} /\ Flag(c) % WordModulus = Flag(c)
<1>1. ctx.storage["owner"] \in Word /\ AddressWord[ctx.sender] \in Word
  BY OwnerKeyAssumption, AddressWordAssumption DEF IsContext
<1>2. HasOwner => OwnerBefore \in Word
  BY <1>1, ReducedToWord DEF HasOwner, Reads, OwnerBefore
<1>3. HasRecipient => Recipient \in Word
  BY ReducedToWord DEF HasRecipient, Reads, Recipient
<1> DEFINE n == WordModulus
<1>4. n \in Nat /\ n >= 2
  <2>1. WordBits \in Nat \ {0}
    BY WordBitsAssumption
  <2> QED BY <2>1, PowersAssumption DEF WordModulus
<1> HIDE DEF n
<1>5. 0 \in 0 .. n - 1 /\ \A w \in 0 .. n - 1 : w \in Int /\ w % n = w
  BY <1>4
<1>6. \A c : Flag(c) \in {0, 1} /\ Flag(c) % n = Flag(c)
  BY <1>4 DEF Flag
<1> QED BY <1>1, <1>2, <1>3, <1>5, <1>6 DEF Word, n

\* Every turn of the template leads to where its facts hold again.
LEMMA NftStep ==
    ASSUME IsContext(ctx), NEW pc \in 0 .. 14, At(vm, pc, NftSpent[pc + 1]), NftFacts(vm, pc)
    PROVE  NftHolds(Step(NftProgram, ctx, vm))
<1> DEFINE w == Step(NftProgram, ctx, vm)
           stored == ctx.storage["owner"]
           me == AddressWord[ctx.sender]
<1>0. SUFFICES ASSUME ~NftEnd(w) PROVE NftHolds(w)
  BY DEF NftHolds
<1> USE NftWords, OwnerKeyAssumption
<1> HIDE DEF w
<1>1. CASE pc = 0
  <2> DEFINE ins == I1("LOAD", "owner")
             c == Charged(vm, ins)
  <2>1. NftProgram[1] = ins /\ ins.op \in DOMAIN GasCosts /\ Cost(ins) = 25
    BY NftInstructions, OneOperand, NftCosts DEF Cost
  <2>2. /\ w = Perform(ins, ctx, c, 15) /\ At(c, 1, NftSpent[1] + 25)
        /\ c.stack = vm.stack /\ c.storage = vm.storage
    BY <1>0, <1>1, <2>1, NftTurn DEF w
  <2>3. c \in MachineStates
    BY <2>2 DEF At
  <2> HIDE DEF c
  <2>4. w = Pushed(c, stored) /\ Stack0(c)
    BY <1>1, <2>2, LoadDoes DEF NftFacts, Stack0
  <2>5. Restacked(w, c) /\ Stack1(w, stored)
    BY <2>3, <2>4, PushedOn DEF Stack0
  <2>6. At(w, 1, 25) /\ NftFacts(w, 1)
    BY <1>1, <2>2, <2>5 DEF At, Running, Restacked, NftFacts, NftSpent
  <2> QED BY <2>6, NftArrives DEF NftSpent
<1>2. CASE pc = 1
  <2> DEFINE ins == I1("JUMPI", 4)
             c == Charged(vm, ins)
  <2>1. NftProgram[2] = ins /\ ins.op \in DOMAIN GasCosts /\ Cost(ins) = 5
    BY NftInstructions, OneOperand, NftCosts DEF Cost
  <2>2. /\ w = Perform(ins, ctx, c, 15) /\ At(c, 2, NftSpent[2] + 5)
        /\ c.stack = vm.stack /\ c.storage = vm.storage
    BY <1>0, <1>2, <2>1, NftTurn DEF w
  <2>3. c \in MachineStates
    BY <2>2 DEF At
  <2> HIDE DEF c
  <2>4. Stack1(c, stored) /\ vm.storage["owner"] = stored
    BY <1>2, <2>2 DEF NftFacts, Stack1
  <2>5. Restacked(Dropped(c, 1), c) /\ Stack0(Dropped(c, 1))
    BY <2>3, <2>4, DroppedFrom DEF Stack1
  <2>6. w = IF stored # 0 THEN [Dropped(c, 1) EXCEPT !.pc = 4] ELSE Dropped(c, 1)
    BY <2>2, <2>3, <2>4, JumpDoes, TopOfStack DEF JumpTo
  <2>7. CASE stored # 0
    <3>1. /\ w \in MachineStates /\ w.pc = 4 /\ w.gas = c.gas /\ w.storage = c.storage
          /\ w.status = c.status /\ w.stack = Dropped(c, 1).stack
      BY <2>5, <2>6, <2>7 DEF Restacked, MachineStates
    <3>2. At(w, 4, 30)
      BY <2>2, <3>1 DEF At, Running, NftSpent
    <3>3. NftFacts(w, 4)
      <4>1. Stack0(w) /\ w.storage["owner"] = stored
        BY <2>2, <2>4, <2>5, <3>1 DEF Stack0
      <4>2. OwnerBefore = stored /\ HasOwner
        BY <2>7 DEF OwnerBefore, HasOwner
      <4> QED BY <4>1, <4>2 DEF NftFacts
    <3> QED BY <3>2, <3>3, NftArrives DEF NftSpent
  <2>8. CASE stored = 0
    <3>1. At(w, 2, 30) /\ NftFacts(w, 2)
      BY <2>2, <2>5, <2>6, <2>8 DEF At, Running, Restacked, NftFacts, NftSpent
    <3> QED BY <3>1, NftArrives DEF NftSpent
  <2> QED BY <2>7, <2>8
<1>3. CASE pc = 2
  <2> DEFINE ins == I1("READ_METADATA", "initial_owner")
             c == Charged(vm, ins)
  <2>1. NftProgram[3] = ins /\ ins.op \in DOMAIN GasCosts /\ Cost(ins) = 10
    BY NftInstructions, OneOperand, NftCosts DEF Cost
  <2>2. /\ w = Perform(ins, ctx, c, 15) /\ At(c, 3, NftSpent[3] + 10)
        /\ c.stack = vm.stack /\ c.storage = vm.storage
    BY <1>0, <1>3, <2>1, NftTurn DEF w
  <2>3. c \in MachineStates
    BY <2>2 DEF At
  <2> HIDE DEF c
  <2>4. Stack0(c) /\ stored = 0
    BY <1>3, <2>2 DEF NftFacts, Stack0
  <2>5. CASE ~Reads(ctx.metadata, "initial_owner")
    <3>1. w = Fail(c)
      BY <2>2, <2>5, MetadataDoes
    <3>2. w \in MachineStates /\ w.status = "failed"
      BY <2>3, <3>1 DEF Fail, Stop, MachineStates
    <3> QED BY <1>0, <2>4, <2>5, <3>2 DEF NftEnd, Running, HasOwner
  <2>6. CASE Reads(ctx.metadata, "initial_owner")
    <3>1. w = Pushed(c, ctx.metadata["initial_owner"])
      BY <2>2, <2>6, MetadataDoes
    <3>2. Restacked(w, c) /\ Stack1(w, OwnerBefore)
      BY <2>3, <2>4, <2>6, <3>1, PushedOn DEF Reads, Stack0, OwnerBefore
    <3>3. At(w, 3, 40) /\ NftFacts(w, 3)
      BY <2>2, <2>6, <3>2 DEF At, Running, Restacked, NftFacts, NftSpent, HasOwner
    <3> QED BY <3>3, NftArrives DEF NftSpent
  <2> QED BY <2>5, <2>6
<1>4. CASE pc = 3
  <2> DEFINE ins == I1("STORE", "owner")
             c == Charged(vm, ins)
  <2>1. NftProgram[4] = ins /\ ins.op \in DOMAIN GasCosts /\ Cost(ins) = 100
    BY NftInstructions, OneOperand, NftCosts DEF Cost
  <2>2. /\ w = Perform(ins, ctx, c, 15) /\ At(c, 4, NftSpent[4] + 100)
        /\ c.stack = vm.stack /\ c.storage = vm.storage
    BY <1>0, <1>4, <2>1, NftTurn DEF w
  <2>3. c \in MachineStates
    BY <2>2 DEF At
  <2> HIDE DEF c
  <2>4. Stack1(c, OwnerBefore) /\ HasOwner
    BY <1>4, <2>2 DEF NftFacts, Stack1
  <2>5. Restacked(Dropped(c, 1), c) /\ Stack0(Dropped(c, 1))
    BY <2>3, <2>4, DroppedFrom DEF Stack1
  <2>6. w = [Dropped(c, 1) EXCEPT !.storage["owner"] = OwnerBefore]
    BY <2>2, <2>3, <2>4, StoreDoes, TopOfStack
  <2>7. /\ w \in MachineStates /\ w.pc = c.pc /\ w.gas = c.gas /\ w.status = c.status
        /\ w.stack = Dropped(c, 1).stack /\ w.storage["owner"] = OwnerBefore
    BY <2>4, <2>5, <2>6 DEF Restacked, MachineStates
  <2>8. At(w, 4, 140)
    BY <2>2, <2>7 DEF At, Running, NftSpent
  <2>9. NftFacts(w, 4)
    <3>1. Stack0(w)
      BY <2>5, <2>7 DEF Stack0
    <3> QED BY <2>4, <2>7, <3>1 DEF NftFacts
  <2> QED BY <2>8, <2>9, NftArrives DEF NftSpent
<1>5. CASE pc = 4
  <2> DEFINE ins == I1("LOAD", "owner")
             c == Charged(vm, ins)
  <2>1. NftProgram[5] = ins /\ ins.op \in DOMAIN GasCosts /\ Cost(ins) = 25
    BY NftInstructions, OneOperand, NftCosts DEF Cost
  <2>2. /\ w = Perform(ins, ctx, c, 15) /\ At(c, 5, NftSpent[5] + 25)
        /\ c.stack = vm.stack /\ c.storage = vm.storage
    BY <1>0, <1>5, <2>1, NftTurn DEF w
  <2>3. c \in MachineStates
    BY <2>2 DEF At
  <2> HIDE DEF c
  <2>4. w = Pushed(c, OwnerBefore) /\ Stack0(c) /\ HasOwner
    BY <1>5, <2>2, LoadDoes DEF NftFacts, Stack0
  <2>5. Restacked(w, c) /\ Stack1(w, OwnerBefore)
    BY <2>3, <2>4, PushedOn DEF Stack0
  <2>6. At(w, 5, 165) /\ NftFacts(w, 5)
    BY <2>2, <2>4, <2>5 DEF At, Running, Restacked, NftFacts, NftSpent
  <2> QED BY <2>6, NftArrives DEF NftSpent
<1>6. CASE pc = 5
  <2> DEFINE ins == I("TX_SENDER")
             c == Charged(vm, ins)
  <2>1. NftProgram[6] = ins /\ ins.op \in DOMAIN GasCosts /\ Cost(ins) = 2
    BY NftInstructions, NoOperand, NftCosts DEF Cost
  <2>2. /\ w = Perform(ins, ctx, c, 15) /\ At(c, 6, NftSpent[6] + 2)
        /\ c.stack = vm.stack /\ c.storage = vm.storage
    BY <1>0, <1>6, <2>1, NftTurn DEF w
  <2>3. c \in MachineStates
    BY <2>2 DEF At
  <2> HIDE DEF c
  <2>4. w = Pushed(c, me) /\ Stack1(c, OwnerBefore) /\ HasOwner
    BY <1>6, <2>2, SenderDoes DEF NftFacts, Stack1
  <2>5. Restacked(w, c) /\ Stack2(w, OwnerBefore, me)
    <3>1. me \in Int /\ me % WordModulus = me /\ Len(c.stack) <= 1
      BY <2>4 DEF Stack1
    <3> HIDE DEF me
    <3> QED BY <2>3, <2>4, <3>1, PushedOn
  <2>6. At(w, 6, 167) /\ NftFacts(w, 6)
    BY <2>2, <2>4, <2>5 DEF At, Running, Restacked, NftFacts, NftSpent
  <2> QED BY <2>6, NftArrives DEF NftSpent
<1>7. CASE pc = 6
  <2> DEFINE ins == I("EQ")
             c == Charged(vm, ins)
  <2>1. NftProgram[7] = ins /\ ins.op \in DOMAIN GasCosts /\ Cost(ins) = 2
    BY NftInstructions, NoOperand, NftCosts DEF Cost
  <2>2. /\ w = Perform(ins, ctx, c, 15) /\ At(c, 7, NftSpent[7] + 2)
        /\ c.stack = vm.stack /\ c.storage = vm.storage
    BY <1>0, <1>7, <2>1, NftTurn DEF w
  <2>3. c \in MachineStates
    BY <2>2 DEF At
  <2> HIDE DEF c
  <2> DEFINE flag == Flag(OwnerBefore = me)
  <2>4. Stack2(c, OwnerBefore, me) /\ HasOwner
    BY <1>7, <2>2 DEF NftFacts, Stack2
  <2>5. Restacked(Dropped(c, 2), c) /\ Stack0(Dropped(c, 2)) /\ Len(c.stack) = 2
    BY <2>3, <2>4, DroppedFrom DEF Stack2
  <2>6. w = Pushed(Dropped(c, 2), flag)
    <3>1. w = Reduced(c, 2, Flag(Top(c, 1) = Top(c, 0)))
      <4>1. w = IF Len(c.stack) < 2 THEN Fail(c) ELSE Reduced(c, 2, Flag(Top(c, 1) = Top(c, 0)))
        BY ONLY <2>2, EqDoes
      <4> QED BY <2>5, <4>1
    <3>2. Top(c, 1) = OwnerBefore /\ Top(c, 0) = me
      BY <2>3, <2>4, TopOfStack
    <3> QED BY <2>5, <3>1, <3>2 DEF Reduced
  <2>7. Restacked(w, Dropped(c, 2)) /\ Stack1(w, flag)
    BY <2>5, <2>6, PushedOn DEF Stack0, Restacked
  <2>8. At(w, 7, 169) /\ NftFacts(w, 7)
    BY <2>2, <2>4, <2>5, <2>7 DEF At, Running, Restacked, NftFacts, NftSpent
  <2> QED BY <2>8, NftArrives DEF NftSpent
<1>8. CASE pc = 7
  <2> DEFINE ins == I1("JUMPI", 9)
             c == Charged(vm, ins)
  <2>1. NftProgram[8] = ins /\ ins.op \in DOMAIN GasCosts /\ Cost(ins) = 5
    BY NftInstructions, OneOperand, NftCosts DEF Cost
  <2>2. /\ w = Perform(ins, ctx, c, 15) /\ At(c, 8, NftSpent[8] + 5)
        /\ c.stack = vm.stack /\ c.storage = vm.storage
    BY <1>0, <1>8, <2>1, NftTurn DEF w
  <2>3. c \in MachineStates
    BY <2>2 DEF At
  <2> HIDE DEF c
  <2>4. Stack1(c, Flag(OwnerBefore = me)) /\ HasOwner
    BY <1>8, <2>2 DEF NftFacts, Stack1
  <2>5. Restacked(Dropped(c, 1), c) /\ Stack0(Dropped(c, 1))
    BY <2>3, <2>4, DroppedFrom DEF Stack1
  <2>6. w = IF OwnerBefore = me THEN [Dropped(c, 1) EXCEPT !.pc = 9] ELSE Dropped(c, 1)
    BY <2>2, <2>3, <2>4, JumpDoes, TopOfStack DEF JumpTo, Flag
  <2>7. CASE OwnerBefore = me
    <3>1. /\ w \in MachineStates /\ w.pc = 9 /\ w.gas = c.gas /\ w.storage = c.storage
          /\ w.status = c.status /\ w.stack = Dropped(c, 1).stack
      BY <2>5, <2>6, <2>7 DEF Restacked, MachineStates
    <3>2. At(w, 9, 174) /\ NftFacts(w, 9)
      BY <2>2, <2>4, <2>5, <2>7, <3>1 DEF At, Running, NftFacts, NftSpent, Stack0
    <3> QED BY <3>2, NftArrives DEF NftSpent
  <2>8. CASE OwnerBefore # me
    <3>1. At(w, 8, 174) /\ NftFacts(w, 8)
      BY <2>2, <2>5, <2>6, <2>8 DEF At, Running, Restacked, NftFacts, NftSpent
    <3> QED BY <3>1, NftArrives DEF NftSpent
  <2> QED BY <2>7, <2>8
<1>9. CASE pc = 8
  <2> DEFINE ins == I("REVERT")
             c == Charged(vm, ins)
  <2>1. NftProgram[9] = ins /\ ins.op \in DOMAIN GasCosts /\ Cost(ins) = 0
    BY NftInstructions, NoOperand, NftCosts DEF Cost
  <2>2. /\ w = Perform(ins, ctx, c, 15) /\ At(c, 9, NftSpent[9] + 0)
        /\ c.stack = vm.stack /\ c.storage = vm.storage
    BY <1>0, <1>9, <2>1, NftTurn DEF w
  <2>3. c \in MachineStates
    BY <2>2 DEF At
  <2> HIDE DEF c
  <2>4. w = Stop(c, "reverted") /\ me # OwnerBefore
    BY <1>9, <2>2, RevertDoes DEF NftFacts
  <2>5. w \in MachineStates /\ w.status = "reverted"
    BY <2>3, <2>4 DEF Stop, MachineStates
  <2> QED BY <1>0, <2>4, <2>5 DEF NftEnd, Running
<1>10. CASE pc = 9
  <2> DEFINE ins == I1("READ_INPUT", "recipient")
             c == Charged(vm, ins)
  <2>1. NftProgram[10] = ins /\ ins.op \in DOMAIN GasCosts /\ Cost(ins) = 10
    BY NftInstructions, OneOperand, NftCosts DEF Cost
  <2>2. /\ w = Perform(ins, ctx, c, 15) /\ At(c, 10, NftSpent[10] + 10)
        /\ c.stack = vm.stack /\ c.storage = vm.storage
    BY <1>0, <1>10, <2>1, NftTurn DEF w
  <2>3. c \in MachineStates
    BY <2>2 DEF At
  <2> HIDE DEF c
  <2>4. Stack0(c) /\ HasOwner /\ me = OwnerBefore
    BY <1>10, <2>2 DEF NftFacts, Stack0
  <2>5. CASE ~HasRecipient
    <3>1. w = Fail(c)
      BY <2>2, <2>5, InputDoes DEF HasRecipient
    <3>2. w \in MachineStates /\ w.status = "failed"
      BY <2>3, <3>1 DEF Fail, Stop, MachineStates
    <3> QED BY <1>0, <2>5, <3>2 DEF NftEnd, Running
  <2>6. CASE HasRecipient
    <3>1. w = Pushed(c, ctx.input["recipient"])
      BY <2>2, <2>6, InputDoes DEF HasRecipient
    <3>2. Restacked(w, c) /\ Stack1(w, Recipient)
      BY <2>3, <2>4, <2>6, <3>1, PushedOn DEF Reads, Stack0, Recipient, HasRecipient
    <3>3. At(w, 10, 184) /\ NftFacts(w, 10)
      BY <2>2, <2>4, <2>6, <3>2 DEF At, Running, Restacked, NftFacts, NftSpent
    <3> QED BY <3>3, NftArrives DEF NftSpent
  <2> QED BY <2>5, <2>6
<1>11. CASE pc = 10
  <2> DEFINE ins == I("DUP")
             c == Charged(vm, ins)
  <2>1. NftProgram[11] = ins /\ ins.op \in DOMAIN GasCosts /\ Cost(ins) = 2
    BY NftInstructions, NoOperand, NftCosts DEF Cost
  <2>2. /\ w = Perform(ins, ctx, c, 15) /\ At(c, 11, NftSpent[11] + 2)
        /\ c.stack = vm.stack /\ c.storage = vm.storage
    BY <1>0, <1>11, <2>1, NftTurn DEF w
  <2>3. c \in MachineStates
    BY <2>2 DEF At
  <2> HIDE DEF c
  <2>4. Stack1(c, Recipient) /\ HasOwner /\ me = OwnerBefore /\ HasRecipient
    BY <1>11, <2>2 DEF NftFacts, Stack1
  <2>5. w = Pushed(c, Recipient)
    BY <2>2, <2>3, <2>4, DupDoes, TopOfStack
  <2>6. Restacked(w, c) /\ Stack2(w, Recipient, Recipient)
    <3>1. Recipient \in Int /\ Recipient % WordModulus = Recipient /\ Len(c.stack) <= 1
      BY <2>4 DEF Stack1
    <3> QED BY <2>3, <2>4, <2>5, <3>1, PushedOn
  <2>7. At(w, 11, 186) /\ NftFacts(w, 11)
    BY <2>2, <2>4, <2>6 DEF At, Running, Restacked, NftFacts, NftSpent
  <2> QED BY <2>7, NftArrives DEF NftSpent
<1>12. CASE pc = 11
  <2> DEFINE ins == I1("JUMPI", 13)
             c == Charged(vm, ins)
  <2>1. NftProgram[12] = ins /\ ins.op \in DOMAIN GasCosts /\ Cost(ins) = 5
    BY NftInstructions, OneOperand, NftCosts DEF Cost
  <2>2. /\ w = Perform(ins, ctx, c, 15) /\ At(c, 12, NftSpent[12] + 5)
        /\ c.stack = vm.stack /\ c.storage = vm.storage
    BY <1>0, <1>12, <2>1, NftTurn DEF w
  <2>3. c \in MachineStates
    BY <2>2 DEF At
  <2> HIDE DEF c
  <2>4. Stack2(c, Recipient, Recipient) /\ HasOwner /\ me = OwnerBefore /\ HasRecipient
    BY <1>12, <2>2 DEF NftFacts, Stack2
  <2>5. Restacked(Dropped(c, 1), c) /\ Stack1(Dropped(c, 1), Recipient)
    BY <2>3, <2>4, DroppedFrom DEF Stack2
  <2>6. w = IF Recipient # 0 THEN [Dropped(c, 1) EXCEPT !.pc = 13] ELSE Dropped(c, 1)
    BY <2>2, <2>3, <2>4, JumpDoes, TopOfStack DEF JumpTo
  <2>7. CASE Recipient # 0
    <3>1. /\ w \in MachineStates /\ w.pc = 13 /\ w.gas = c.gas /\ w.storage = c.storage
          /\ w.status = c.status /\ w.stack = Dropped(c, 1).stack
      BY <2>5, <2>6, <2>7 DEF Restacked, MachineStates
    <3>2. At(w, 13, 191) /\ NftFacts(w, 13)
      BY <2>2, <2>4, <2>5, <2>7, <3>1 DEF At, Running, NftFacts, NftSpent, Stack1
    <3> QED BY <3>2, NftArrives DEF NftSpent
  <2>8. CASE Recipient = 0
    <3>1. At(w, 12, 191) /\ NftFacts(w, 12)
      BY <2>2, <2>4, <2>5, <2>6, <2>8 DEF At, Running, Restacked, NftFacts, NftSpent
    <3> QED BY <3>1, NftArrives DEF NftSpent
  <2> QED BY <2>7, <2>8
<1>13. CASE pc = 12
  <2> DEFINE ins == I("REVERT")
             c == Charged(vm, ins)
  <2>1. NftProgram[13] = ins /\ ins.op \in DOMAIN GasCosts /\ Cost(ins) = 0
    BY NftInstructions, NoOperand, NftCosts DEF Cost
  <2>2. /\ w = Perform(ins, ctx, c, 15) /\ At(c, 13, NftSpent[13] + 0)
        /\ c.stack = vm.stack /\ c.storage = vm.storage
    BY <1>0, <1>13, <2>1, NftTurn DEF w
  <2>3. c \in MachineStates
    BY <2>2 DEF At
  <2> HIDE DEF c
  <2>4. w = Stop(c, "reverted") /\ Recipient = 0
    BY <1>13, <2>2, RevertDoes DEF NftFacts
  <2>5. w \in MachineStates /\ w.status = "reverted"
    BY <2>3, <2>4 DEF Stop, MachineStates
  <2> QED BY <1>0, <2>4, <2>5 DEF NftEnd, Running
<1>14. CASE pc = 13
  <2> DEFINE ins == I1("STORE", "owner")
             c == Charged(vm, ins)
  <2>1. NftProgram[14] = ins /\ ins.op \in DOMAIN GasCosts /\ Cost(ins) = 100
    BY NftInstructions, OneOperand, NftCosts DEF Cost
  <2>2. /\ w = Perform(ins, ctx, c, 15) /\ At(c, 14, NftSpent[14] + 100)
        /\ c.stack = vm.stack /\ c.storage = vm.storage
    BY <1>0, <1>14, <2>1, NftTurn DEF w
  <2>3. c \in MachineStates
    BY <2>2 DEF At
  <2> HIDE DEF c
  <2>4. /\ Stack1(c, Recipient) /\ HasOwner /\ me = OwnerBefore /\ HasRecipient
        /\ Recipient # 0
    BY <1>14, <2>2 DEF NftFacts, Stack1
  <2>5. Restacked(Dropped(c, 1), c)
    BY <2>3, <2>4, DroppedFrom DEF Stack1
  <2>6. w = [Dropped(c, 1) EXCEPT !.storage["owner"] = Recipient]
    BY <2>2, <2>3, <2>4, StoreDoes, TopOfStack
  <2>7. /\ w \in MachineStates /\ w.pc = c.pc /\ w.gas = c.gas /\ w.status = c.status
        /\ w.storage["owner"] = Recipient
    BY <2>4, <2>5, <2>6 DEF Restacked, MachineStates
  <2>8. At(w, 14, 291) /\ NftFacts(w, 14)
    BY <2>2, <2>4, <2>7 DEF At, Running, NftFacts, NftSpent
  <2> QED BY <2>8, NftArrives DEF NftSpent
<1>15. CASE pc = 14
  <2> DEFINE ins == I("HALT")
             c == Charged(vm, ins)
  <2>1. NftProgram[15] = ins /\ ins.op \in DOMAIN GasCosts /\ Cost(ins) = 0
    BY NftInstructions, NoOperand, NftCosts DEF Cost
  <2>2. /\ w = Perform(ins, ctx, c, 15) /\ At(c, 15, NftSpent[15] + 0)
        /\ c.stack = vm.stack /\ c.storage = vm.storage
    BY <1>0, <1>15, <2>1, NftTurn DEF w
  <2>3. c \in MachineStates
    BY <2>2 DEF At
  <2> HIDE DEF c
  <2>4. w = Stop(c, "succeeded")
    BY <2>2, HaltDoes
  <2>5. /\ HasOwner /\ me = OwnerBefore /\ HasRecipient /\ Recipient # 0
        /\ c.storage["owner"] = Recipient
    BY <1>15, <2>2 DEF NftFacts
  <2>6. w \in MachineStates /\ w.status = "succeeded" /\ w.storage = c.storage
    BY <2>3, <2>4 DEF Stop, MachineStates
  <2> QED BY <1>0, <2>5, <2>6 DEF NftEnd, Running
<1> QED
  BY <1>1, <1>2, <1>3, <1>4, <1>5, <1>6, <1>7, <1>8, <1>9, <1>10, <1>11, <1>12, <1>13,
     <1>14, <1>15

----------------------------------------------------------------------------

\* A call of the template is at one of its instructions, or has ended well.
NftInv == SoundCall /\ (program = NftProgram => NftHolds(vm))

LEMMA InitNftInv == Init => NftInv
<1> SUFFICES ASSUME Init PROVE NftInv
  OBVIOUS
<1>1. SoundCall
  BY InitSoundCall
<1>2. vm \in MachineStates /\ vm = Start(ctx)
  BY <1>1 DEF Init, SoundCall, SoundRun
<1>3. At(vm, 0, 0)
  BY <1>1, <1>2 DEF At, Running, Start, SoundCall, IsContext
<1>4. NftFacts(vm, 0)
  <2>1. vm.storage["owner"] = ctx.storage["owner"] % WordModulus /\ Len(vm.stack) = 0
    BY <1>2, OwnerKeyAssumption DEF Start
  <2> QED BY <1>1, <2>1, NftWords DEF NftFacts, Stack0, SoundCall
<1>5. NftHolds(vm)
  BY <1>1, <1>3, <1>4, NftArrives DEF NftSpent, SoundCall
<1> QED BY <1>1, <1>5 DEF NftInv

LEMMA NextNftInv ==
    ASSUME NftInv, [Next]_vars
    PROVE  NftInv'
<1>1. SoundCall'
  BY NextSoundCall DEF NftInv
<1>2. CASE Turn
  <2>1. ASSUME program = NftProgram PROVE NftHolds(Step(NftProgram, ctx, vm))
    <3>1. PICK pc \in 0 .. 14 : At(vm, pc, NftSpent[pc + 1]) /\ NftFacts(vm, pc)
      BY <1>2, <2>1 DEF Turn, NftInv, NftHolds, NftEnd
    <3> QED BY <3>1, NftStep DEF NftInv, SoundCall
  <2>2. vm' = Step(program, ctx, vm) /\ program' = program /\ ctx' = ctx
    BY <1>2 DEF Turn
  <2>3. program = NftProgram => NftHolds(vm)'
    <3> DEFINE w == Step(NftProgram, ctx, vm)
    <3>1. SUFFICES ASSUME vm' = w, NftHolds(w) PROVE NftHolds(vm)'
      BY <2>1, <2>2
    <3> HIDE DEF w
    <3>2. /\ OwnerBefore' = OwnerBefore /\ Recipient' = Recipient
          /\ HasOwner' = HasOwner /\ HasRecipient' = HasRecipient
      BY <2>2 DEF OwnerBefore, Recipient, HasOwner, HasRecipient
    <3>3. NftEnd(w) => NftEnd(vm)'
      BY <2>2, <3>1, <3>2 DEF NftEnd
    <3>4. ASSUME NEW pc, At(w, pc, NftSpent[pc + 1]), NftFacts(w, pc)
          PROVE  At(vm, pc, NftSpent[pc + 1])' /\ NftFacts(vm, pc)'
      BY <2>2, <3>1, <3>2, <3>4 DEF At, NftFacts
    <3> QED BY <3>1, <3>3, <3>4 DEF NftHolds
  <2> QED BY <1>1, <2>2, <2>3 DEF NftInv
<1>3. CASE UNCHANGED vars
  BY <1>1, <1>3 DEF vars, NftInv, NftHolds, NftEnd, NftFacts, At, OwnerBefore, Recipient,
                    HasOwner, HasRecipient
<1> QED BY <1>2, <1>3 DEF Next

LEMMA NftAlways == Spec => []NftInv
BY InitNftInv, NextNftInv, PTL DEF Spec

LEMMA NftEnds == NftInv /\ program = NftProgram /\ ~Running(vm) => NftEnd(vm)
BY DEF NftInv, NftHolds, At

\* A token only changes hands in a run its owner sent, to the recipient.
THEOREM OwnersMoveTokens == Spec => []NftMovesOnlyByItsOwner
<1>1. NftInv => NftMovesOnlyByItsOwner
  BY NftEnds DEF NftMovesOnlyByItsOwner, NftEnd, Running
<1> QED BY <1>1, NftAlways, PTL

\* NFT_TRANSFER_GAS_LIMIT pays for any transfer, and only a missing owner or
\* recipient makes one fail.
THEOREM TransfersSucceed == Spec => []NftTransferSucceeds
<1>1. NftInv => NftTransferSucceeds
  <2> SUFFICES ASSUME NftInv, program = NftProgram, ~Running(vm),
                      ctx.gas_limit >= NftTransferGasLimit
               PROVE  NftTransferSucceeds
    BY DEF NftTransferSucceeds
  <2>1. NftEnd(vm)
    BY NftEnds
  <2>2. vm.status \in {"succeeded", "reverted", "failed", "out_of_gas"}
    BY DEF Running, MachineStates, NftInv, SoundCall, SoundRun
  <2>3. ~(ctx.gas_limit < NftTransferGasLimit)
    BY DEF NftTransferGasLimit, NftInv, SoundCall, IsContext
  <2> QED BY <2>1, <2>2, <2>3 DEF NftEnd, NftTransferSucceeds
<1> QED BY <1>1, NftAlways, PTL

=============================================================================
