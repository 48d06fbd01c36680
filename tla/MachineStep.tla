---------------------------- MODULE MachineStep ----------------------------
(***************************************************************************)
(* The machine of MVM as a function: contracts[] and the nested execute()  *)
(* calls after the next step, as they follow from contracts[] and the      *)
(* calls before it.  Only the level of a pin can make a difference, and    *)
(* pins are read in the replay on a contract's host alone; here a read     *)
(* gives 0.                                                                *)
(***************************************************************************)
EXTENDS MVM

\* The innermost call goes on as f.
Going(f) == <<contracts, Append(Callers, f)>>
Paying == Charged(Frame, Cost(Op, Mod))

\* The stack after an instruction, and where the machine is then.
NewStack ==
    CASE Grows(Op, Mod) -> Append(Stack, Pushed)
      [] Op = "SWAP" -> Without(2) \o <<Nth(1), Nth(2)>>
      [] Op \in {"POP", "EMIT", "LOG"} -> Without(Needs(Op, Mod))
      [] Op \in Arithmetic -> Append(Without(2), Binary(Op, Mod, Nth(2), Nth(1)))
      [] Op \in {"NOT", "SHA3", "SLOAD"} \/ (Op = "EXT" /\ Mod \in {0, 1}) ->
            Append(Without(1), Replacement)
      [] Op = "JMP" /\ Mod # 0 -> Without(1)
      [] Op = "SSTORE" \/ (Op = "EXT" /\ Mod = 2) -> Without(2)
      [] Op = "XCALL" -> Append(Without(3 + ArgCount), 0)
      [] Op = "GPIO" -> IF Mod \in {1, 3} THEN Append(Without(1), 0) ELSE Without(2)
      [] OTHER -> Stack

NewPc == IF Op # "JMP" THEN NextPc
         ELSE IF Mod = 0 \/ Nth(1) # 0 THEN Operand(1) ELSE NextPc

Onward == [Paying EXCEPT !.stack = NewStack, !.pc = NewPc]
Remembering == [Paying EXCEPT !.stack = NewStack, !.pc = NewPc, !.memory[Nth(2)] = Nth(1)]
Halting == [Paying EXCEPT !.status = IF Mod = 0 THEN "HALTED" ELSE "FAILED"]
Failing ==
    [Charged(Frame, IF Affordable THEN Cost(Op, Mod) ELSE 0) EXCEPT !.status = "FAILED"]

Stored == [contracts EXCEPT ![Frame.self].storage = StorageSet(@, Nth(2), Nth(1))]

Outcome ==
    IF Ended THEN <<Left(Frame), Append(SubSeq(frames, 1, Len(frames) - 2), Resumed)>>
    ELSE IF ~ Goes THEN Going(Failing)
    ELSE CASE Op = "HALT" -> Going(Halting)
           [] Op = "SSTORE" -> <<Stored, Append(Callers, Onward)>>
           [] Op = "EXT" /\ Mod = 2 -> Going(Remembering)
           [] Op = "XCALL" /\ Targets # {} -> <<Lent, Append(Append(Callers, Waiting), Callee)>>
           [] OTHER -> Going(Onward)

\* execute() is over and its transaction, or its turn in the replay, too.
Over == Ended /\ Len(frames) = 1

\* executeTx: the contract that is called, the call that is made of it, whether
\* the transaction succeeds, and what it leaves behind.
Found(call) == call.contract \in DOMAIN contracts /\ call.contract \in local[device]
Launched(call) ==
    <<contracts, <<Executing(call.contract, call.args, call.sender, call.value, <<>>)>>>>
Paid(call) == Frame.status = "HALTED" /\ (call.gasLimit = 0 \/ Frame.used <= call.gasLimit)
Remains(call, gas) == <<Left(Frame), [gas EXCEPT ![call.sender] = @ + Frame.used]>>
=============================================================================
