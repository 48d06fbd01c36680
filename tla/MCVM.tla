------------------------------- MODULE MCVM -------------------------------
(* Assembled programs that call each other, among them the relay contract of *)
(* mirkonet.ino, and one that fills the code up to its last label.           *)
EXTENDS MVM, Assembler

I(mn) == [mn |-> mn, num |-> 0, lbl |-> ""]
N(mn, num) == [mn |-> mn, num |-> num, lbl |-> ""]
L(mn, lbl) == [mn |-> mn, num |-> 0, lbl |-> lbl]

\* The relay contract of deployRelay: 0 status, 1 on, 2 off, 3 toggle, else revert.
Relay ==
    <<N("ARG", 0), I("DUP"), N("PUSH", 0), I("EQ"), L("JUMPI", "status"), I("DUP"),
      N("PUSH", 1), I("EQ"), L("JUMPI", "on"), I("DUP"), N("PUSH", 2), I("EQ"),
      L("JUMPI", "off"), I("DUP"), N("PUSH", 3), I("EQ"), L("JUMPI", "toggle"), I("REVERT"),
      L("LABEL", "status"), I("POP"), N("ARG", 1), I("SLOAD"), I("EMIT"), I("HALT"),
      L("LABEL", "on"), I("POP"), N("ARG", 1), N("PUSH", 1), I("GPIOMODE"), N("ARG", 1),
      N("PUSH", 0), I("GPIOWRITE"), N("ARG", 1), N("PUSH", 1), I("SSTORE"), N("PUSH", 1),
      I("EMIT"), I("HALT"), L("LABEL", "off"), I("POP"), N("ARG", 1), N("PUSH", 1),
      I("GPIOMODE"), N("ARG", 1), N("PUSH", 1), I("GPIOWRITE"), N("ARG", 1), N("PUSH", 0),
      I("SSTORE"), N("PUSH", 0), I("EMIT"), I("HALT"), L("LABEL", "toggle"), I("POP"),
      N("ARG", 1), N("PUSH", 1), I("GPIOMODE"), N("ARG", 1), I("SLOAD"), N("PUSH", 0), I("EQ"),
      L("JUMPI", "t_on"), N("ARG", 1), N("PUSH", 1), I("GPIOWRITE"), N("ARG", 1), N("PUSH", 0),
      I("SSTORE"), N("PUSH", 0), I("EMIT"), I("HALT"), L("LABEL", "t_on"), N("ARG", 1),
      N("PUSH", 0), I("GPIOWRITE"), N("ARG", 1), N("PUSH", 1), I("SSTORE"), N("PUSH", 1),
      I("EMIT"), I("HALT")>>

\* Counts in its storage; the first argument says when to give up.
Counter ==
    <<N("PUSH", 0), I("DUP"), I("SLOAD"), N("PUSH", 1), I("ADD"), I("SSTORE"), N("PUSH", 0),
      I("SLOAD"), N("ARG", 0), I("EQ"), L("JUMPI", "fail"), N("PUSH", 7), I("HALT"),
      L("LABEL", "fail"), I("REVERT")>>

\* Stores, calls contract 22, stores again, and fails unless the call succeeded.
Caller ==
    <<N("PUSH", 1), N("PUSH", 1), I("SSTORE"), N("ARG", 0), N("PUSH", 1), N("CALLNAME", 22),
      N("PUSH", 0), I("CALL"), I("DUP"), N("PUSH", 2), I("SWAP"), I("SSTORE"),
      L("JUMPI", "ok"), I("REVERT"), L("LABEL", "ok"), I("HALT")>>

\* Calls contract 22 and fails afterwards whatever it answers.
Careless ==
    <<N("PUSH", 0), N("CALLNAME", 22), N("PUSH", 5), I("CALL"), N("PUSH", 3), I("SWAP"),
      I("SSTORE"), I("REVERT")>>

\* Runs the code of contract 22 in its own storage, then jumps in its own code.
Delegating ==
    <<N("ARG", 0), N("PUSH", 1), N("CALLNAME", 22), N("PUSH", 0), I("DCALL"),
      L("JUMPI", "done"), N("PUSH", 9), N("PUSH", 9), I("SSTORE"), L("LABEL", "done"),
      I("HALT")>>

\* Calls contract 11, which may be the one that called it.
Reentrant ==
    <<N("PUSH", 4), I("DUP"), I("SLOAD"), N("PUSH", 1), I("ADD"), I("SSTORE"), N("PUSH", 4),
      I("SLOAD"), N("PUSH", 3), I("GT"), L("JUMPI", "stop"), N("ARG", 0), N("PUSH", 1),
      N("CALLNAME", 11), N("PUSH", 0), I("CALL"), L("LABEL", "stop"), I("HALT")>>

\* Delegates to itself for ever.
Recursive ==
    <<N("PUSH", 0), I("ADDRESS"), N("PUSH", 0), I("DELEGATECALL"), I("HALT")>>

\* Never halts by itself.
Looping ==
    <<L("LABEL", "again"), I("ISZERO"), L("JUMP", "again")>>

\* A loop that needs nothing from the stack.
Spinning ==
    <<L("LABEL", "again"), L("JUMP", "again")>>

\* The arithmetic.
Arithmetical ==
    <<N("PUSH", 300), N("PUSH", 70000), I("SUB"), N("PUSH", 9), I("MUL"), N("PUSH", 4),
      I("DIV"), N("PUSH", 7), I("MOD"), N("PUSH", 12), I("AND"), N("PUSH", 3), I("OR"),
      N("PUSH", 5), I("XOR"), N("PUSH", 2), I("SHL"), N("PUSH", 1), I("SHR"), I("NOT"),
      N("PUSH", 2), I("LT"), I("SHA3"), N("PUSH", 0), I("DIV"), I("HALT")>>

\* What there is to ask for, and the memory.
Asking ==
    <<I("CALLER"), I("BALANCE"), I("CALLVALUE"), I("ORIGIN"), I("LOG3"), I("NUMBER"),
      I("TIMESTAMP"), I("GASLEFT"), I("LOG2"), N("PUSH", 1), N("PUSH", 8), I("MSTORE"),
      N("PUSH", 1), I("MLOAD"), I("LOG0"), N("PUSH", 4), I("GPIOREAD"), N("PUSH", 4),
      I("ADCREAD"), I("DACWRITE"), N("PUSH", 2), I("MLOAD"), I("HALT")>>

\* Calls a contract that is not there.
Missing ==
    <<N("PUSH", 0), N("CALLNAME", 33), N("PUSH", 0), I("CALL"), N("PUSH", 1), I("SWAP"),
      I("SSTORE"), I("HALT")>>

\* Runs past its end after a jump to a label on the last line.
Wild ==
    <<N("ARG", 0), L("JUMPI", "end"), N("PUSH", 1), I("EMIT"), L("LABEL", "end")>>

\* More keys than there are slots.
Full ==
    <<N("PUSH", 1), I("DUP"), I("SSTORE"), N("PUSH", 2), I("DUP"), I("SSTORE"), N("PUSH", 3),
      I("DUP"), I("SSTORE"), N("PUSH", 5), I("DUP"), I("SSTORE"), I("HALT")>>

\* Pushes until the stack is full.
Deep ==
    <<L("LABEL", "more"), N("PUSH", 1), L("JUMP", "more")>>

\* Writes a pin by a byte that a scan may take for something else.
Blinking ==
    <<N("ARG", 0), L("JUMPI", "go"), I("POP"), I("POP"), I("POP"), I("POP"), L("LABEL", "go"),
      N("PUSH", 4), N("PUSH", 0), I("GPIOWRITE"), I("HALT")>>

\* A jump to the last label that a program can have, at byte 255.
Long == <<L("JUMP", "end"), I("NOT")>> \o [i \in 1..49 |-> N("PUSH", 70000)]
        \o <<L("PUSH", "end"), N("PUSH", 70000), L("LABEL", "end")>>

\* One byte too many.
TooLong == <<I("NOT")>> \o Long

Of(source, addr, host) ==
    LET r == Assemble(source)
    IN  [addr |-> addr, host |-> host, code |-> r.code, storage |-> [k \in {} |-> 0]]

\* A source that is not assembled is not deployed.
Assembled(sources) == {s \in sources : Assemble(s).ok}

MCDeployments ==
    {<<Of(a, 11, "producer"), Of(b, 22, "replica")>> :
        a \in Assembled({Caller, Careless, Delegating, Reentrant, Recursive, Missing, Relay,
                         Asking}),
        b \in Assembled({Counter, Reentrant, Delegating, Looping, Spinning, Wild, Full, Deep,
                         Relay, Arithmetical, Blinking, Long, TooLong})}

\* Both contracts everywhere, one of them missing on the replica, and the second
\* missing on the producer.
MCHoldings ==
    {[producer |-> p, replica |-> r] :
        <<p, r>> \in {<<{1, 2}, {1, 2}>>, <<{1, 2}, {1}>>, <<{1, 2}, {2}>>, <<{1}, {1, 2}>>}}

To(contract, args, gasLimit) ==
    [contract |-> contract, args |-> args, gasLimit |-> gasLimit, sender |-> 77, value |-> 5]

MCCalls == {To(1, <<1, 4>>, 0), To(1, <<3, 4>>, 150), To(2, <<2, 4>>, 0), To(3, <<>>, 0)}
MCHash == [w \in 0..1023 |-> ((w * 7) + 3) % 1024]

\* The relay alone, and the four calls that its authors suggest.
RelayDeployed == {<<Of(Relay, 11, "producer")>>}
Everywhere == {[d \in Devices |-> {1}]}
RelayCalls == {To(1, <<op, 4>>, 0) : op \in 0..3}

\* "Turn ON", "Turn OFF", "Toggle", "Read state", and "ON = GPIO LOW": when a
\* block is done, the pin is low if and only if the relay's storage says on.
RelayFollows == phase = "idle" => ((StorageGet(contracts[1].storage, 4) = 1) <=> (pins[4] = 0))
=============================================================================
