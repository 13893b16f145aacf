------------------------------- MODULE MCUVM -------------------------------
(* Small calls of the virtual machine: every program of up to four         *)
(* instructions over an alphabet of transfers, jumps and authorization     *)
(* checks, every program of one instruction over every opcode and every    *)
(* small stack, and the NFT program for owners, senders and recipients.    *)
EXTENDS NftContract

MaxProgramLength == 4

mcAccounts == {"sender", "contract", "wallet"}
mcAddressWord == [a \in mcAccounts |->
    CASE a = "sender" -> 1 [] a = "wallet" -> 2 [] a = "contract" -> 3]
mcSha256 == [w \in Word |-> (w * 5 + 3) % WordModulus]

Ins(op, args) == [op |-> op, args |-> args]

TransferAlphabet ==
    { Ins("PUSH", <<2>>), Ins("DUP", << >>), Ins("JUMP", <<0>>), Ins("JUMPI", <<1>>),
      Ins("TRANSFER_FROM", <<"wallet", "self", "r1">>),
      Ins("TRANSFER_FROM", <<"self", "sender", "r1">>),
      Ins("TRANSFER_FROM", <<"sender", "sender", "r1">>),
      Ins("REQUIRE_AUTH", <<"wallet", "r1">>), Ins("REVERT", << >>) }

mcTransferPrograms == UNION { [1 .. n -> TransferAlphabet] : n \in 0 .. MaxProgramLength }

mcTransferContexts ==
    { [ sender |-> s, contract |-> "contract", gas_limit |-> 115, height |-> 1,
        balances |-> [a \in mcAccounts |-> IF a = "wallet" THEN 3 ELSE 2],
        storage |-> [k \in Keys |-> 0], commitments |-> << >>, reveals |-> << >>,
        authorized |-> auth, metadata |-> << >>, input |-> << >> ] :
      s \in {"sender", "wallet"}, auth \in {{}, {<<"wallet", "r1">>}} }

\* Two words are pushed, then one instruction of any opcode runs, then the
\* result is stored and copied to memory and back.
Operands(op) ==
    CASE Arity(op) = 0 -> << >>
      [] op \in {"PUSH", "JUMP", "JUMPI"} -> <<1>>
      [] op \in {"MEM_LOAD", "MEM_STORE", "LOAD", "STORE", "READ_METADATA", "READ_INPUT"} -> <<"k">>
      [] op = "TRANSFER_FROM" -> <<"sender", "wallet", "r1">>
      [] OTHER -> <<"wallet", "r1">>

mcWordPrograms ==
    { <<Ins("PUSH", <<x>>), Ins("PUSH", <<y>>), Ins(op, Operands(op)), Ins("STORE", <<"k">>),
        Ins("LOAD", <<"k">>), Ins("MEM_STORE", <<"k">>), Ins("MEM_LOAD", <<"k">>)>> :
      x \in Word \cup {-1, WordModulus}, y \in Word,
      op \in DOMAIN GasCosts \cup {"UNKNOWN"} }
    \cup { <<Ins("PUSH", << >>)>>, <<Ins("POP", << >>)>>,
           <<Ins("PUSH", <<1>>), Ins("DUP", << >>), Ins("DUP", << >>), Ins("DUP", << >>)>>}

HasKey == [k \in {"k"} |-> 5]
HasPair == [p \in {<<"wallet", "r1">>} |-> 6]
mcWordContexts ==
    { [ sender |-> "sender", contract |-> "contract", gas_limit |-> g, height |-> 7,
        balances |-> [a \in mcAccounts |-> 2],
        storage |-> [k \in Keys |-> 1], commitments |-> c, reveals |-> c,
        authorized |-> DOMAIN c, metadata |-> m, input |-> m ] :
      g \in {30, 300}, c \in {<< >>, HasPair}, m \in {<< >>, HasKey} }

\* Before and after the first transfer, with and without a recipient or a first
\* owner; the token may belong to one who does not send (word 3), and numbers
\* that are not words are reduced.
mcNftContexts ==
    { [ sender |-> s, contract |-> "contract", gas_limit |-> NftTransferGasLimit, height |-> 1,
        balances |-> [a \in mcAccounts |-> 0],
        storage |-> [k \in Keys |-> IF k = "owner" THEN o ELSE 0],
        commitments |-> << >>, reveals |-> << >>, authorized |-> {},
        metadata |-> first, input |-> in ] :
      s \in {"sender", "wallet"}, o \in 0 .. 3,
      first \in {<< >>} \cup [{"initial_owner"} -> 1 .. 3],
      in \in {<< >>} \cup [{"recipient"} -> (0 .. 3) \cup {-1, WordModulus, WordModulus + 1}] }

mcCalls ==
    [program : mcTransferPrograms, ctx : mcTransferContexts]
        \cup [program : mcWordPrograms, ctx : mcWordContexts]
        \cup [program : {NftProgram}, ctx : mcNftContexts]

\* Whether the machine computes with words, as modular arithmetic does and as
\* its comparisons and divisions need: what STORE left after a run is a word, and
\* is the result, on the integers, of the operation on the two words that were
\* pushed, reduced once at the end; a number pushed that is not a word counts as
\* the word it is congruent to, everywhere.
LastOp == program[3].op
WordArithmeticWraps ==
    (/\ vm.status = "succeeded"
     /\ Len(program) = 7
     /\ LastOp \in {"ADD", "SUB", "MUL", "DIV", "MOD", "EQ", "LT", "GT"}) =>
        LET left  == CHOOSE w \in Word : (program[1].args[1] - w) % WordModulus = 0
            right == program[2].args[1]
            got   == vm.storage["k"]
        IN  /\ got \in Word
            /\ CASE LastOp = "ADD" -> got \in {left + right, left + right - WordModulus}
                 [] LastOp = "SUB" -> got \in {left - right, left - right + WordModulus}
                 [] LastOp = "MUL" -> (left * right - got) % WordModulus = 0
                 [] LastOp = "DIV" -> left - got * right \in 0 .. right - 1
                 [] LastOp = "MOD" -> \E q \in Word : left = q * right + got /\ got < right
                 [] LastOp = "EQ"  -> got = Flag(left = right)
                 [] LastOp = "LT"  -> got = Flag(left < right)
                 [] LastOp = "GT"  -> got = Flag(left > right)
=============================================================================
