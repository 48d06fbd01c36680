----------------------------- MODULE Assembler -----------------------------
(***************************************************************************)
(* The two passes of MVMAssembler::assemble (assembler.h).  A line of the  *)
(* source is a record: the mnemonic mn, or "LABEL"; the number num of its  *)
(* operand (for CALLNAME the address that the name hashes to); and the     *)
(* label lbl that it defines or uses, "" if none.  Comments, blanks and    *)
(* number formats are not modelled.                                        *)
(***************************************************************************)
EXTENDS Integers, Sequences, FiniteSetsExt

CONSTANT MaxCode        \* MVM_MAX_CODE

\* A jump has one byte for its target.
ASSUME AssemblerAssumption == MaxCode \in 0..256

\* ENCODE
Encode(op, mod) == (op * 8) + mod

\* The mnemonics that stand for one byte.
Plain == [HALT |-> Encode(0, 0), REVERT |-> Encode(0, 1), POP |-> Encode(2, 0),
          DUP |-> Encode(3, 0), SWAP |-> Encode(4, 0), ADD |-> Encode(5, 0),
          SUB |-> Encode(6, 0), MUL |-> Encode(7, 0), DIV |-> Encode(8, 0),
          MOD |-> Encode(9, 0), AND |-> Encode(10, 0), OR |-> Encode(11, 0),
          XOR |-> Encode(12, 0), SHL |-> Encode(13, 0), SHR |-> Encode(14, 0),
          EQ |-> Encode(15, 0), GT |-> Encode(15, 1), LT |-> Encode(15, 2),
          NOT |-> Encode(16, 0), SLOAD |-> Encode(18, 0), SSTORE |-> Encode(19, 0),
          EMIT |-> Encode(20, 0), CALLER |-> Encode(21, 7), BALANCE |-> Encode(22, 0),
          CALLVALUE |-> Encode(23, 0), SHA3 |-> Encode(24, 0), LOG0 |-> Encode(25, 0),
          LOG1 |-> Encode(25, 1), LOG2 |-> Encode(25, 2), LOG3 |-> Encode(25, 3),
          LOG4 |-> Encode(25, 4), ISZERO |-> Encode(26, 0), MLOAD |-> Encode(26, 1),
          MSTORE |-> Encode(26, 2), ADDRESS |-> Encode(26, 3), ORIGIN |-> Encode(26, 4),
          NUMBER |-> Encode(26, 5), TIMESTAMP |-> Encode(26, 6), GASLEFT |-> Encode(26, 7),
          CALL |-> Encode(27, 0), DCALL |-> Encode(27, 1), DELEGATECALL |-> Encode(27, 1),
          GPIOWRITE |-> Encode(28, 0), GPIOREAD |-> Encode(28, 1),
          GPIOMODE |-> Encode(28, 2), ADCREAD |-> Encode(28, 3),
          DACWRITE |-> Encode(28, 4)]

Jumps == [JUMP |-> Encode(17, 0), JUMPI |-> Encode(17, 1)]

Operands(value) == IF value <= 255 THEN 1 ELSE IF value <= 65535 THEN 2 ELSE 4

\* The width last bytes of a number, the highest first.
BytesOf(value, width) == [i \in 1..width |-> (value \div 2 ^ (8 * (width - i))) % 256]

\* A PUSH of a number and what follows it.
PushOf(value, width) ==
    <<Encode(1, IF width = 4 THEN 3 ELSE width)>> \o BytesOf(value, width)

\* Mutant: jumps are taken for one byte in the first pass.
InstrSizeShort(line) ==
    CASE line.mn = "CALLNAME" -> 5
      [] line.mn = "PUSH" -> IF line.lbl # "" THEN 2 ELSE 1 + Operands(line.num)
      [] OTHER -> 1

\* instrSize: a PUSH of a label is taken for two bytes, whatever the label is.
InstrSize(line) ==
    CASE line.mn = "CALLNAME" -> 5
      [] line.mn = "PUSH" -> IF line.lbl # "" THEN 2 ELSE 1 + Operands(line.num)
      [] line.mn \in DOMAIN Jumps -> 2
      [] OTHER -> 1

\* The first pass: off after each line, and the labels; of two with one name the
\* last one counts.
Offsets(source) ==
    LET off[n \in 0..Len(source)] ==
            IF n = 0 THEN 0
            ELSE off[n - 1] + (IF source[n].mn = "LABEL" THEN 0 ELSE InstrSize(source[n]))
    IN  off

Labels(source) ==
    LET lines == {n \in DOMAIN source : source[n].mn = "LABEL"}
        last(l) == Max({n \in lines : source[n].lbl = l})
    IN  [l \in {source[n].lbl : n \in lines} |-> Offsets(source)[last(l)]]

Known(line, labels) ==
    \/ line.mn \in DOMAIN Plain \cup {"CALLNAME"}
    \/ line.mn = "PUSH" /\ line.lbl \in DOMAIN labels \cup {""}
    \/ line.mn \in DOMAIN Jumps /\ line.lbl \in DOMAIN labels
    \/ line.mn = "ARG" /\ line.num <= 6

\* The bytes of one line; the target of a jump is cut to a byte.
Encoded(line, labels) ==
    CASE line.mn = "LABEL" -> <<>>
      [] line.mn \in DOMAIN Plain -> <<Plain[line.mn]>>
      [] line.mn = "CALLNAME" -> PushOf(line.num, 4)
      [] line.mn = "PUSH" -> LET value == IF line.lbl = "" THEN line.num ELSE labels[line.lbl]
                             IN  PushOf(value, Operands(value))
      [] line.mn \in DOMAIN Jumps -> <<Jumps[line.mn], labels[line.lbl] % 256>>
      [] line.mn = "ARG" -> <<Encode(21, line.num)>>

\* The code after each line of the second pass.
Passed(source) ==
    LET labels == Labels(source)
        code[n \in 0..Len(source)] ==
            IF n = 0 THEN <<>> ELSE code[n - 1] \o Encoded(source[n], labels)
    IN  code

\* Each line is known, and there is room for the longest instruction before it.
Assemble(source) ==
    LET code == Passed(source)
    IN  IF \A n \in DOMAIN source :
              source[n].mn # "LABEL" =>
                  Known(source[n], Labels(source)) /\ Len(code[n - 1]) < MaxCode - 5
        THEN [ok |-> TRUE, code |-> code[Len(source)]]
        ELSE [ok |-> FALSE, code |-> <<>>]
=============================================================================
