---------------------------- MODULE UVMMachine ----------------------------
(***************************************************************************)
(* The virtual machine of UVM.tla run step by step: one behaviour is one   *)
(* call of execute_uvm_program (core/uvm.py), any one of Calls.            *)
(***************************************************************************)
EXTENDS UVM

CONSTANT Calls   \* [program, ctx]: what the machine may be called with

ASSUME CallsAssumption == \A call \in Calls : IsProgram(call.program) /\ IsContext(call.ctx)

VARIABLES program, ctx, vm

vars == <<program, ctx, vm>>

Init ==
    /\ \E call \in Calls : program = call.program /\ ctx = call.ctx
    /\ vm = Start(ctx)

\* One instruction, or the end of the program.
Turn ==
    /\ Running(vm)
    /\ vm' = Step(program, ctx, vm)
    /\ UNCHANGED <<program, ctx>>

Next == Turn

\* The loop is ordinary sequential code: it takes its next turn.
Spec == Init /\ [][Next]_vars /\ WF_vars(Next)

----------------------------------------------------------------------------

\* Coins are moved, never made: the changes of a run add up to zero, also
\* when source and receiver of a transfer are the same account.
ChangesConserveCoins == Total(vm.changes) = 0

\* Every run ends, whatever the program jumps to.
Terminates == <>~Running(vm)

=============================================================================
