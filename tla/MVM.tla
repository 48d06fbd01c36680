-------------------------------- MODULE MVM --------------------------------
(***************************************************************************)
(* The virtual machine (mvm.h) and the contract calls of one block after   *)
(* another: the producer executes them in createBlock and drops those that *)
(* fail, a replica executes the block in applyNetworkBlock and compares    *)
(* the state root, and each of them afterwards replays the calls of the    *)
(* contracts it hosts to drive its pins (applyHostHardwareEffects).        *)
(*                                                                         *)
(* Code is the bytes the machine fetches; words have WordBits bits.  One   *)
(* step is one instruction, or the end of one execute().  A contract's     *)
(* code is the one that was deployed; a device runs only what it has got,  *)
(* which the two devices need not share.  The reason of a failure, events  *)
(* and logs are only printed: a failure is "FAILED", EMIT and LOG take     *)
(* their operands off the stack.  Of a fee the gas is kept (Ledger has the *)
(* rest); a contract's balance is always 0, because a CALL moves no value. *)
(***************************************************************************)
EXTENDS Integers, Sequences, FiniteSetsExt

CONSTANTS
    WordBits,           \* bits of a word, 32 in the code
    MaxStack,           \* MVM_MAX_STACK
    MaxStorage,         \* MVM_MAX_STORAGE
    MaxMemory,          \* MVM_MAX_MEMORY
    MaxArgs,            \* MVM_MAX_ARGS
    MaxTopics,          \* MVM_MAX_LOG_TOPICS
    MaxDepth,           \* MVM_MAX_CALL_DEPTH
    MaxGas,             \* MVM_MAX_GAS
    Pins,               \* GPIO_ALLOWED_PINS
    Hash,               \* what SHA3 makes of a word
    Number, Timestamp,  \* of the block
    Deployments,        \* what contracts[] may be at the start
    Holdings,           \* whose code each device may have: CodeCache says how it comes there
    Calls,              \* the CALL transactions that may arrive
    MaxCalls,           \* MAX_TXN_PER_BLOCK
    MaxBlocks           \* bound of the model

Word == 2 ^ WordBits
Words == 0..Word - 1
Devices == {"producer", "replica"}

\* What a contract's storage may hold, and a contract: IsContract(r) says that r
\* is one.
IsStorage(m) ==
    /\ DOMAIN m \in SUBSET Words /\ m \in [DOMAIN m -> Words]
    /\ Cardinality(DOMAIN m) <= MaxStorage

IsContract(r) ==
    /\ r \in [addr : Words, host : Devices, code : Seq(0..255), storage : {r.storage}]
    /\ IsStorage(r.storage)

ASSUME MVMAssumption ==
    /\ WordBits \in 8..32 /\ MaxStack \in Nat \ {0, 1, 2} /\ MaxStorage \in Nat
    /\ MaxMemory \in Nat /\ MaxArgs \in Nat /\ MaxTopics \in Nat /\ MaxDepth \in Nat
    /\ MaxGas \in Words /\ Pins \subseteq 0..255
    /\ DOMAIN Hash = Words /\ \A w \in Words : Hash[w] \in Words
    /\ Number \in Words /\ Timestamp \in Words
    /\ \A d \in Deployments : d \in Seq(Range(d)) /\ \A i \in DOMAIN d : IsContract(d[i])
    /\ Holdings \subseteq [Devices -> SUBSET Nat]
    /\ \A c \in Calls : /\ c.args \in Seq(Words) /\ Len(c.args) <= MaxArgs
                        /\ c.sender \in Words /\ c.value \in Words /\ c.gasLimit \in Nat
    /\ MaxCalls \in Nat /\ MaxBlocks \in Nat

VARIABLES
    contracts,          \* contracts[] of the device that executes
    frames,             \* the nested execute() calls, the innermost last
    phase,              \* what the device does with the block
    device,             \* which device
    queue,              \* the calls still to be executed
    included,           \* the calls in the block
    base,               \* contracts[] before the block: blockSnapScratch
    txSnap,             \* txSnapScratch
    spent,              \* the gas that the block charges each sender
    sealed,             \* contracts[] after the block, which its state root fixes
    sealedSpent,        \* and spent, which the root fixes by the balances
    local,              \* the contracts whose code each device has got: hasCode
    asked,              \* the contracts whose code the producer's call has looked for
    sought,             \* and all the calls in the block (history)
    pins,               \* the levels that hosts have written to their pins
    blocks              \* blocks so far

blockVars == <<phase, device, queue, included, base, txSnap, spent, sealed, sealedSpent,
               local, sought, blocks>>
vars == <<contracts, frames, pins, asked, blockVars>>
-----------------------------------------------------------------------------
(* Instructions *)

OpNames == <<"HALT", "PUSH", "POP", "DUP", "SWAP", "ADD", "SUB", "MUL", "DIV", "MOD", "AND",
             "OR", "XOR", "SHL", "SHR", "CMP", "NOT", "JMP", "SLOAD", "SSTORE", "EMIT", "ARG",
             "BALANCE", "CALLVALUE", "SHA3", "LOG", "EXT", "XCALL", "GPIO">>

OpOf(byte) == IF byte \div 8 < Len(OpNames) THEN OpNames[(byte \div 8) + 1] ELSE "NONE"
ModOf(byte) == byte % 8

Arithmetic == {"ADD", "SUB", "MUL", "DIV", "MOD", "AND", "OR", "XOR", "SHL", "SHR", "CMP"}

\* Mutant: a jump is free.
CostFreeJump(op, mod) == IF op = "JMP" THEN 0 ELSE 2

\* _gasCost with the GAS_ constants of config.h.
Cost(op, mod) ==
    CASE op \in {"ADD", "SUB", "CMP", "NOT"} -> 3
      [] op \in {"MUL", "DIV", "MOD", "EMIT"} -> 5
      [] op \in {"AND", "OR", "XOR", "SHL", "SHR", "JMP"} -> 8
      [] op = "SLOAD" -> 50
      [] op \in {"SSTORE", "XCALL"} -> 100
      [] op = "BALANCE" -> 20
      [] op = "SHA3" -> 30
      [] op = "LOG" -> 50 + 25 * mod
      [] op = "EXT" -> IF mod \in 0..2 THEN 3 ELSE 20
      [] op = "GPIO" -> 80
      [] OTHER -> 2

\* How many words an instruction takes off the stack or looks at.
Needs(op, mod) ==
    CASE op \in Arithmetic \cup {"SWAP", "SSTORE"} -> 2
      [] op \in {"POP", "DUP", "NOT", "SLOAD", "EMIT", "SHA3"} -> 1
      [] op = "JMP" -> IF mod = 0 THEN 0 ELSE 1
      [] op = "LOG" -> 1 + mod
      [] op = "EXT" -> IF mod \in 0..1 THEN 1 ELSE IF mod = 2 THEN 2 ELSE 0
      [] op = "XCALL" -> 3
      [] op = "GPIO" -> IF mod \in {1, 3} THEN 1 ELSE 2
      [] OTHER -> 0

\* The instructions that add a word.
Grows(op, mod) == op \in {"PUSH", "DUP", "ARG", "BALANCE", "CALLVALUE"} \/ (op = "EXT" /\ mod > 2)

\* Bytes after the opcode of a PUSH.
Width(mod) == CASE mod = 3 -> 4 [] mod \in {1, 2} -> mod [] OTHER -> 0

Size(op, mod) ==
    CASE op = "PUSH" -> 1 + Width(mod)
      [] op = "JMP" -> 2
      [] OTHER -> 1

Bits(w) == {i \in 0..WordBits - 1 : (w \div 2 ^ i) % 2 = 1}
FromBits(S) ==
    LET sum[i \in 0..WordBits] ==
            IF i = 0 THEN 0 ELSE sum[i - 1] + (IF i - 1 \in S THEN 2 ^ (i - 1) ELSE 0)
    IN  sum[WordBits]

\* The second word of the stack, then the top.
Binary(op, mod, a, b) ==
    LET shift == b % 32
        truth == CASE mod = 0 -> a = b [] mod = 1 -> a > b [] OTHER -> a < b
    IN  CASE op = "ADD" -> (a + b) % Word
          [] op = "SUB" -> (a - b) % Word
          [] op = "MUL" -> (a * b) % Word
          [] op = "DIV" -> a \div b
          [] op = "MOD" -> a % b
          [] op = "AND" -> FromBits(Bits(a) \cap Bits(b))
          [] op = "OR" -> FromBits(Bits(a) \cup Bits(b))
          [] op = "XOR" -> FromBits((Bits(a) \ Bits(b)) \cup (Bits(b) \ Bits(a)))
          [] op = "SHL" -> IF shift >= WordBits THEN 0 ELSE (a * 2 ^ shift) % Word
          [] op = "SHR" -> IF shift >= WordBits THEN 0 ELSE a \div 2 ^ shift
          [] op = "CMP" -> IF truth THEN 1 ELSE 0
-----------------------------------------------------------------------------
(* The innermost execute() *)

Frame == frames[Len(frames)]
Callers == SubSeq(frames, 1, Len(frames) - 1)   \* the calls that wait for it
Self == contracts[Frame.self]
Code == Self.code
Here == Code[Frame.pc + 1]
Op == OpOf(Here)
Mod == ModOf(Here)
Depth == Len(frames) - 1

Stack == Frame.stack
Nth(n) == Stack[Len(Stack) - n + 1]         \* the n-th word from the top
Without(n) == SubSeq(Stack, 1, Len(Stack) - n)

\* What execute() starts from.
Executing(c, args, caller, value, saved) ==
    [self |-> c, status |-> "RUNNING", pc |-> 0, stack |-> <<>>, gas |-> MaxGas, used |-> 0,
     memory |-> [i \in 0..MaxMemory - 1 |-> 0], snap |-> contracts[c].storage,
     args |-> args, caller |-> caller, value |-> value, saved |-> saved]

StorageGet(storage, key) == IF key \in DOMAIN storage THEN storage[key] ELSE 0

StorageFull(storage, key) == key \notin DOMAIN storage /\ Cardinality(DOMAIN storage) >= MaxStorage

StorageSet(storage, key, value) ==
    [k \in DOMAIN storage \cup {key} |-> IF k = key THEN value ELSE storage[k]]

\* XCALL: the arguments that are taken, the first contract with the address.
ArgCount == IF Nth(3) > MaxArgs THEN MaxArgs ELSE Nth(3)
Arguments == [i \in 1..ArgCount |-> Nth(3 + i)]
Addressed == {i \in DOMAIN contracts : contracts[i].addr = Nth(2)}
Targets == Addressed \cap local[device]

\* The pin is cast to a byte.
Pin == Nth(IF Mod \in {1, 3} THEN 1 ELSE 2) % 256

\* The bytes after the opcode as a word, the highest first.
Operand(width) ==
    LET byte(i) == Code[Frame.pc + 1 + i]
        join(w, i) == ((w * 256) + byte(i)) % Word
    IN  CASE width = 1 -> byte(1)
          [] width = 2 -> join(byte(1), 2)
          [] width = 4 -> join(join(join(byte(1), 2), 3), 4)

\* What ends an instruction with an error, after its gas was charged.
Faulty ==
    \/ Op = "NONE"
    \/ Len(Stack) < Needs(Op, Mod)
    \/ Grows(Op, Mod) /\ Len(Stack) >= MaxStack
    \/ Op = "PUSH" /\ (Mod \notin 1..3 \/ Frame.pc + Width(Mod) >= Len(Code))
    \/ Op \in {"DIV", "MOD"} /\ Nth(1) = 0
    \/ Op = "JMP" /\ (Frame.pc + 1 >= Len(Code) \/ Operand(1) >= Len(Code))
    \/ Op = "SSTORE" /\ StorageFull(Self.storage, Nth(2))
    \/ Op = "LOG" /\ Mod > MaxTopics
    \/ Op = "ARG" /\ Mod # 7 /\ Mod >= Len(Frame.args)
    \/ Op = "EXT" /\ Mod \in {1, 2} /\ Nth(Mod) >= MaxMemory
    \/ Op = "XCALL" /\ (Depth >= MaxDepth \/ Len(Stack) < 3 + ArgCount)
    \/ Op = "GPIO" /\ (Mod > 4 \/ Pin \notin Pins)

Active == frames # <<>> /\ Frame.status = "RUNNING"
Affordable == Frame.pc < Len(Code) /\ Frame.gas >= Cost(Op, Mod)
Goes == Active /\ Affordable /\ ~ Faulty

Charged(f, cost) == [f EXCEPT !.gas = @ - cost, !.used = @ + cost]
Become(f) == frames' = Append(Callers, f)

\* The instruction leaves this stack behind, and execution goes on at pc.
Continue(stack, pc) ==
    Become([Charged(Frame, Cost(Op, Mod)) EXCEPT !.stack = stack, !.pc = pc])

NextPc == Frame.pc + Size(Op, Mod)
-----------------------------------------------------------------------------
(* execute(): one action for each kind of instruction *)

\* What an instruction without operands pushes.
Pushed ==
    CASE Op = "PUSH" -> Operand(Width(Mod))
      [] Op = "DUP" -> Nth(1)
      [] Op = "ARG" -> IF Mod = 7 THEN Frame.caller ELSE Frame.args[Mod + 1]
      [] Op = "BALANCE" -> 0
      [] Op = "CALLVALUE" -> Frame.value
      [] Op = "EXT" -> CASE Mod = 3 -> Self.addr
                         [] Mod = 4 -> frames[1].caller
                         [] Mod = 5 -> Number
                         [] Mod = 6 -> Timestamp
                         [] Mod = 7 -> Frame.gas - Cost(Op, Mod)

Push ==
    /\ Goes /\ Grows(Op, Mod)
    /\ Continue(Append(Stack, Pushed), NextPc)
    /\ UNCHANGED <<contracts, pins, asked, blockVars>>

Swap ==
    /\ Goes /\ Op = "SWAP"
    /\ Continue(Without(2) \o <<Nth(1), Nth(2)>>, NextPc)
    /\ UNCHANGED <<contracts, pins, asked, blockVars>>

\* POP, EMIT and LOG, whose words are printed at the end.
Drop ==
    /\ Goes /\ Op \in {"POP", "EMIT", "LOG"}
    /\ Continue(Without(Needs(Op, Mod)), NextPc)
    /\ UNCHANGED <<contracts, pins, asked, blockVars>>

Calculate ==
    /\ Goes /\ Op \in Arithmetic
    /\ Continue(Append(Without(2), Binary(Op, Mod, Nth(2), Nth(1))), NextPc)
    /\ UNCHANGED <<contracts, pins, asked, blockVars>>

\* What takes the place of the top of the stack: SHA3, SLOAD, MLOAD, NOT and ISZERO.
Replacement ==
    LET w == Nth(1)
    IN  CASE Op = "SHA3" -> Hash[w]
          [] Op = "SLOAD" -> StorageGet(Self.storage, w)
          [] Op = "EXT" /\ Mod = 1 -> Frame.memory[w]
          [] OTHER -> IF w = 0 THEN 1 ELSE 0

Replace ==
    /\ Goes /\ (Op \in {"NOT", "SHA3", "SLOAD"} \/ (Op = "EXT" /\ Mod \in {0, 1}))
    /\ Continue(Append(Without(1), Replacement), NextPc)
    /\ UNCHANGED <<contracts, pins, asked, blockVars>>

Jump ==
    /\ Goes /\ Op = "JMP"
    /\ IF Mod = 0 THEN Continue(Stack, Operand(1))
       ELSE Continue(Without(1), IF Nth(1) # 0 THEN Operand(1) ELSE NextPc)
    /\ UNCHANGED <<contracts, pins, asked, blockVars>>

SStore ==
    /\ Goes /\ Op = "SSTORE"
    /\ Continue(Without(2), NextPc)
    /\ contracts' = [contracts EXCEPT ![Frame.self].storage = StorageSet(@, Nth(2), Nth(1))]
    /\ UNCHANGED <<pins, asked, blockVars>>

MStore ==
    /\ Goes /\ Op = "EXT" /\ Mod = 2
    /\ Become([Charged(Frame, Cost(Op, Mod)) EXCEPT
                  !.stack = Without(2), !.pc = NextPc, !.memory[Nth(2)] = Nth(1)])
    /\ UNCHANGED <<contracts, pins, asked, blockVars>>

\* The history of an XCALL.
Asked == IF phase = "create" THEN asked \cup Addressed ELSE asked

\* XCALL of a contract that is not there, or whose code this device has not got.
CallNothing ==
    /\ Goes /\ Op = "XCALL" /\ Targets = {}
    /\ Continue(Append(Without(3 + ArgCount), 0), NextPc)
    /\ asked' = Asked
    /\ UNCHANGED <<contracts, pins, blockVars>>

\* Mutant: a delegate call leaves the code of its target in the caller.
SavedNothing(c) == <<>>

\* What a delegate call restores when it returns.
Saved(c) == contracts[c].code

\* A delegate call runs the target's code in the caller's contract.
Target == Min(Targets)
Delegate == Mod = 1
Lent ==
    IF Delegate THEN [contracts EXCEPT ![Frame.self].code = contracts[Target].code]
    ELSE contracts

\* XCALL: a machine of its own, with all its gas whatever the stipend says.
Waiting == [Charged(Frame, Cost(Op, Mod)) EXCEPT !.stack = Without(3 + ArgCount)]
Callee ==
    LET caller == IF Mod = 0 THEN Self.addr ELSE Frame.caller
    IN  IF Delegate THEN Executing(Frame.self, Arguments, caller, 0, Saved(Frame.self))
        ELSE Executing(Target, Arguments, caller, 0, <<>>)

Call ==
    /\ Goes /\ Op = "XCALL" /\ Targets # {}
    /\ frames' = Append(Append(Callers, Waiting), Callee)
    /\ contracts' = Lent /\ asked' = Asked
    /\ UNCHANGED <<pins, blockVars>>

\* Pins are touched only in the replay on the contract's host.  Reading gives
\* 0 elsewhere; a pin mode, an ADC and a DAC are no part of the model's pins.
Gpio ==
    /\ Goes /\ Op = "GPIO"
    /\ LET allowed == phase = "replay" /\ Self.host = device
       IN  /\ IF Mod \in {1, 3}
              THEN \E level \in IF allowed THEN {0, 1} ELSE {0} :
                      Continue(Append(Without(1), level), NextPc)
              ELSE Continue(Without(2), NextPc)
           /\ pins' = IF allowed /\ Mod = 0
                      THEN [pins EXCEPT ![Pin] = IF Nth(1) = 0 THEN 0 ELSE 1] ELSE pins
    /\ UNCHANGED <<contracts, asked, blockVars>>

Halt ==
    /\ Goes /\ Op = "HALT"
    /\ Become([Charged(Frame, Cost(Op, Mod)) EXCEPT
                  !.status = IF Mod = 0 THEN "HALTED" ELSE "FAILED"])
    /\ UNCHANGED <<contracts, pins, asked, blockVars>>

Fault ==
    /\ Active /\ ~ Goes
    /\ Become([Charged(Frame, IF Affordable THEN Cost(Op, Mod) ELSE 0) EXCEPT !.status = "FAILED"])
    /\ UNCHANGED <<contracts, pins, asked, blockVars>>

Instruction == \/ Push \/ Swap \/ Drop \/ Calculate \/ Replace \/ Jump \/ SStore \/ MStore
               \/ CallNothing \/ Call \/ Gpio \/ Halt \/ Fault

Ended == frames # <<>> /\ Frame.status # "RUNNING"

\* The end of execute(): a failure takes back its contract's storage, but not
\* that of contracts it called; then a delegate call puts the code back.
Left(f) ==
    [contracts EXCEPT ![f.self].storage = IF f.status = "HALTED" THEN @ ELSE f.snap,
                      ![f.self].code = IF f.saved = <<>> THEN @ ELSE f.saved]

\* Mutant: what the callee has used is charged without a look at what is left.
CoversAll(f, used) == TRUE

\* The caller can pay for what the callee has used.
Covers(f, used) == used <= f.gas

\* XCALL goes on: the callee's gas is charged, and if there is not so much left
\* the caller fails and is charged nothing; success and a result are pushed.
Resumed ==
    LET caller == frames[Len(frames) - 1]
        ok == Frame.status = "HALTED"
        result == IF ok /\ Stack # <<>> /\ Nth(1) # 0 THEN <<Nth(1)>> ELSE <<>>
    IN  IF Covers(caller, Frame.used)
        THEN [Charged(caller, Frame.used) EXCEPT
                 !.stack = @ \o <<IF ok THEN 1 ELSE 0>> \o result, !.pc = @ + 1]
        ELSE [caller EXCEPT !.status = "FAILED"]

Return ==
    /\ Ended /\ Len(frames) > 1
    /\ frames' = Append(SubSeq(frames, 1, Len(frames) - 2), Resumed)
    /\ contracts' = Left(Frame)
    /\ UNCHANGED <<pins, asked, blockVars>>
-----------------------------------------------------------------------------
(* Blocks *)

Free == [s \in {c.sender : c \in Calls} |-> 0]

Init ==
    /\ contracts \in Deployments /\ local \in Holdings
    /\ frames = <<>>
    /\ phase = "idle" /\ device = "producer"
    /\ queue = <<>> /\ included = <<>>
    /\ base = contracts /\ txSnap = contracts
    /\ sealed = contracts /\ spent = Free /\ sealedSpent = Free
    /\ asked = {} /\ sought = {}
    /\ pins = [p \in Pins |-> 1]
    /\ blocks = 0

\* createBlock with the drained transactions.
CreateBlock ==
    /\ phase = "idle" /\ blocks < MaxBlocks
    /\ queue' \in UNION {[1..n -> Calls] : n \in 1..MaxCalls}
    /\ local' \in Holdings
    /\ included' = <<>> /\ base' = contracts /\ spent' = Free /\ sought' = {}
    /\ phase' = "create" /\ device' = "producer" /\ blocks' = blocks + 1
    /\ UNCHANGED <<contracts, frames, pins, asked, txSnap, sealed, sealedSpent>>

\* contractUsesHardwareOpcode: a scan that takes the target of a jump for an
\* instruction.
UsesHardware(code) ==
    LET scan[pc \in 0..Len(code) + 4] ==
            IF pc >= Len(code) THEN FALSE
            ELSE LET op == OpOf(code[pc + 1])
                     size == IF op = "PUSH" THEN 1 + Width(ModOf(code[pc + 1])) ELSE 1
                 IN  op = "GPIO" \/ scan[pc + size]
    IN  scan[0]

\* executeTx: a contract that is not there, or without code here, cannot be
\* called.  applyHostHardwareEffects passes over the contracts of other hosts
\* and those that use no pins.
Callable(i) ==
    /\ i \in DOMAIN contracts /\ i \in local[device]
    /\ phase = "replay" => contracts[i].host = device /\ UsesHardware(contracts[i].code)

\* applyNetworkBlock gives the block up: restoreState(blockSnapScratch).
Reject == phase' = "rejected" /\ contracts' = base /\ queue' = <<>>

\* A call that cannot start is dropped by createBlock and passed over by the
\* replay; applyNetworkBlock rejects the block (before it executes any call, or
\* as one that fails).
StartCall ==
    /\ frames = <<>> /\ queue # <<>>
    /\ LET c == Head(queue)
       IN  \/ /\ Callable(c.contract)
              /\ frames' = <<Executing(c.contract, c.args, c.sender, c.value, <<>>)>>
              /\ txSnap' = contracts
              /\ asked' = IF phase = "create" THEN {c.contract} ELSE asked
              /\ UNCHANGED <<contracts, phase, queue>>
           \/ /\ ~ Callable(c.contract)
              /\ IF phase = "apply" THEN Reject
                 ELSE queue' = Tail(queue) /\ UNCHANGED <<contracts, phase>>
              /\ UNCHANGED <<frames, txSnap, asked>>
    /\ UNCHANGED <<pins, device, included, base, spent, sealed, sealedSpent, local, sought, blocks>>

\* Mutant: createBlock does not roll a failed transaction back.
RolledBackOwn(ok) == Left(Frame)

\* createBlock restores the whole state when a transaction fails.
RolledBack(ok) == IF ok THEN Left(Frame) ELSE txSnap

Succeeded ==
    Frame.status = "HALTED" /\ (Head(queue).gasLimit = 0 \/ Frame.used <= Head(queue).gasLimit)

\* chargeFee for the gas of a call.
Spent == [spent EXCEPT ![Head(queue).sender] = @ + Frame.used]

\* After execute(): createBlock includes a call or drops it, applyNetworkBlock
\* rejects the block if one fails, and the replay does not look at the result.
FinishCall ==
    /\ Ended /\ Len(frames) = 1
    /\ frames' = <<>>
    /\ \/ /\ phase = "create"
          /\ included' = IF Succeeded THEN Append(included, Head(queue)) ELSE included
          /\ spent' = IF Succeeded THEN Spent ELSE spent
          /\ sought' = IF Succeeded THEN sought \cup asked ELSE sought
          /\ contracts' = RolledBack(Succeeded)
          /\ queue' = Tail(queue) /\ UNCHANGED phase
       \/ /\ phase = "apply" /\ Succeeded
          /\ contracts' = Left(Frame) /\ spent' = Spent
          /\ queue' = Tail(queue) /\ UNCHANGED <<phase, included, sought>>
       \/ /\ phase = "apply" /\ ~ Succeeded
          /\ Reject /\ UNCHANGED <<included, spent, sought>>
       \/ /\ phase = "replay"
          /\ contracts' = Left(Frame)
          /\ queue' = Tail(queue) /\ UNCHANGED <<phase, included, spent, sought>>
    /\ UNCHANGED <<pins, asked, device, base, txSnap, sealed, sealedSpent, local, blocks>>

\* The state root is computed and the block is complete.
Seal ==
    /\ phase = "create" /\ frames = <<>> /\ queue = <<>>
    /\ sealed' = contracts /\ sealedSpent' = spent
    /\ phase' = "replay" /\ queue' = included
    /\ UNCHANGED <<contracts, frames, pins, asked, device, included, base, txSnap, spent,
                   local, sought, blocks>>

\* The comparison of the state roots in applyNetworkBlock.
CheckRoot ==
    /\ phase = "apply" /\ frames = <<>> /\ queue = <<>>
    /\ IF contracts = sealed /\ spent = sealedSpent
       THEN phase' = "replay" /\ queue' = included /\ UNCHANGED contracts
       ELSE Reject
    /\ UNCHANGED <<frames, pins, asked, device, included, base, txSnap, spent, sealed,
                   sealedSpent, local, sought, blocks>>

\* restoreState after the replay; the replica begins where the producer did.
EndReplay ==
    /\ phase = "replay" /\ frames = <<>> /\ queue = <<>>
    /\ \/ /\ device = "producer"
          /\ contracts' = base /\ spent' = Free
          /\ phase' = "apply" /\ device' = "replica" /\ queue' = included
       \/ /\ device = "replica"
          /\ contracts' = sealed
          /\ phase' = "idle" /\ device' = "producer" /\ UNCHANGED <<queue, spent>>
    /\ UNCHANGED <<frames, pins, asked, included, base, txSnap, sealed, sealedSpent, local,
                   sought, blocks>>

Progress == Instruction \/ Return \/ StartCall \/ FinishCall \/ Seal \/ CheckRoot \/ EndReplay
Next == CreateBlock \/ Progress

Spec == Init /\ [][Next]_vars

\* The sketch does nothing else until a block is done.
FairSpec == Spec /\ WF_vars(Progress)
-----------------------------------------------------------------------------
(* Properties *)

TypeOK ==
    /\ \A i \in DOMAIN frames :
        LET f == frames[i]
        IN  /\ Len(f.stack) <= MaxStack /\ \A k \in DOMAIN f.stack : f.stack[k] \in Words
            /\ f.gas >= 0 /\ f.used >= 0 /\ f.gas + f.used = MaxGas
            /\ i < Len(frames) => f.status = "RUNNING"
    /\ Len(frames) <= MaxDepth + 1
    /\ \A i \in DOMAIN contracts : Cardinality(DOMAIN contracts[i].storage) <= MaxStorage
    /\ phase \in {"idle", "create", "apply", "replay", "rejected"} /\ device \in Devices

\* Where the instructions of a code begin when it is read from the start.
Starts(code) ==
    LET from[pc \in 0..Len(code) + 4] ==
            IF pc >= Len(code) THEN {}
            ELSE {pc} \cup from[pc + Size(OpOf(code[pc + 1]), ModOf(code[pc + 1]))]
    IN  from[0]

\* Whatever jumps, calls and delegate calls a program makes, the machine stands
\* at the beginning of an instruction of the code it runs, or at its end.
PcAligned == Active => Frame.pc \in Starts(Code) \cup {Len(Code)}

\* Between transactions every contract has its own code again, also after
\* nested and failed delegate calls.
CodeRestored ==
    frames = <<>> => \A i \in DOMAIN contracts : contracts[i].code = base[i].code

\* The replica refuses the producer's block only if it lacks the code of a contract
\* that a call in the block has called, directly or by another contract, or has one
\* that the producer lacked.  Nothing else makes them differ: not failed calls that
\* were rolled back and dropped, what nested calls stored and what gas they took,
\* nor the replay.
ReplicaAccepts ==
    phase = "rejected" => \E i \in sought : (i \in local["producer"]) # (i \in local["replica"])

\* Every block is finished, or refused: no contract runs for ever.
BlocksEnd == phase \notin {"idle", "rejected"} ~> phase \in {"idle", "rejected"}
=============================================================================
