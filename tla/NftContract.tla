---------------------------- MODULE NftContract ----------------------------
(***************************************************************************)
(* The NFT template (core/contracts.py): the fixed program every NFT is    *)
(* deployed with, run on the virtual machine.  The token's owner is the    *)
(* word at storage key "owner", zero until the first transfer; the first   *)
(* owner is in the metadata, the new one in the input of the execution.    *)
(***************************************************************************)
EXTENDS UVMMachine

ASSUME OwnerKeyAssumption == "owner" \in Keys
ASSUME TwoItemsAssumption == MaxStackItems >= 2

I(op) == [op |-> op, args |-> << >>]
I1(op, arg) == [op |-> op, args |-> <<arg>>]

\* The template with the targets of its three branches.
NftTemplate(known, owned, named) ==
    << I1("LOAD", "owner"), I1("JUMPI", known),
       I1("READ_METADATA", "initial_owner"), I1("STORE", "owner"),
       I1("LOAD", "owner"), I("TX_SENDER"), I("EQ"), I1("JUMPI", owned),
       I("REVERT"),
       I1("READ_INPUT", "recipient"), I("DUP"), I1("JUMPI", named),
       I("REVERT"),
       I1("STORE", "owner"), I("HALT") >>

\* Mutants of NftProgram: a known owner is not compared with the sender; the
\* first target is one too small.
NftProgramUnchecked == NftTemplate(9, 9, 13)
NftProgramOffByOne == NftTemplate(3, 9, 13)

NftProgram == NftTemplate(4, 9, 13)

NftTransferGasLimit == 1000   \* NFT_TRANSFER_GAS_LIMIT

\* The owner the token has before the run, and who it is to belong to; words.
OwnerBefore == IF ctx.storage["owner"] # 0
               THEN ctx.storage["owner"]
               ELSE ctx.metadata["initial_owner"] % WordModulus
Recipient == ctx.input["recipient"] % WordModulus

\* There is an owner, and there is a recipient.
HasOwner == ctx.storage["owner"] # 0 \/ Reads(ctx.metadata, "initial_owner")
HasRecipient == Reads(ctx.input, "recipient")

\* A token only changes hands in a run its owner sent, it then belongs to
\* the recipient of the input, and it never ends up owned by nobody: the
\* template's branch targets, counted by hand, meet where they should.
NftMovesOnlyByItsOwner ==
    program = NftProgram /\ vm.status = "succeeded" =>
        /\ HasOwner /\ AddressWord[ctx.sender] = OwnerBefore
        /\ HasRecipient /\ vm.storage["owner"] = Recipient
        /\ vm.storage["owner"] # 0

\* NFT_TRANSFER_GAS_LIMIT always pays for a transfer: an owner who names a
\* recipient succeeds, and no run of the template runs dry or fails.
NftTransferSucceeds ==
    program = NftProgram /\ ctx.gas_limit >= NftTransferGasLimit /\ ~Running(vm) =>
        \/ vm.status = "succeeded"
        \/ vm.status = "failed" /\ ~(HasOwner /\ HasRecipient)
        \/ /\ vm.status = "reverted"
           /\ AddressWord[ctx.sender] # OwnerBefore \/ Recipient = 0

=============================================================================
