------------------------------- MODULE Riscv -------------------------------
(***************************************************************************)
(* What the instructions do by the unprivileged specification of RISC-V,   *)
(* in the widths of module Wasm.  It is what the code of module            *)
(* Translation is compared with; where they are known to differ is named   *)
(* beside the comparison (Deviates of MCRiscv).                            *)
(*                                                                         *)
(* Not compared is the arithmetic of floats (CONSTANT Float), and with it  *)
(* its rounding: only which operands it gets, in which width, and what is  *)
(* done with the result.  The product of a fused operation is exact in it. *)
(***************************************************************************)
EXTENDS Translation

CONSTANT Raised(_, _)       \* the flags of the exceptions an instruction meets, by its name and operands

Bits(half) == IF half THEN 4 ELSE 8
Part(half, value) == value % 2 ^ Bits(half)
Number(half, value) == Signed(T(half), Part(half, value))
Extended(half, value) == Number(half, value) % 256
Written(m, reg, value) == IF reg = 0 THEN m ELSE [m EXCEPT !.regs[reg] = value % 256]
WrittenF(m, reg, half, value) == [m EXCEPT !.fregs[reg] = IF half THEN 240 + (value % 16) ELSE value % 256]

(* A word in a register of floats has all bits above it set, or else is    *)
(* taken for the NaN that operations result in.                            *)
CanonicalNan(half) == Infinite(F(half)) + Mantissa(F(half)) \div 2
Boxed(value) == value >= 240
Unboxed(half, value) == IF ~half THEN value ELSE IF Boxed(value) THEN value % 16 ELSE CanonicalNan(TRUE)

(* Integers.                                                               *)
Ordinary(op, half, a, b) ==
    LET x == Number(half, a)
        y == Number(half, b)
        u == Part(half, a)
        v == Part(half, b)
        by == 2 ^ (b % Bits(half))
    IN CASE op = "add" -> x + y [] op = "sub" -> x - y [] op = "mul" -> x * y
         [] op = "and" -> u & v [] op = "or" -> u | v [] op = "xor" -> u ^^ v
         [] op = "shl" -> x * by [] op = "shr_u" -> u \div by [] op = "shr_s" -> x \div by
         [] op = "lt_s" -> Truth(x < y) [] op = "lt_u" -> Truth(u < v)
         [] op = "div_s" -> IF y = 0 THEN -1 ELSE Quotient(x, y)
         [] op = "rem_s" -> IF y = 0 THEN x ELSE Remainder(x, y)
         [] op = "div_u" -> IF v = 0 THEN -1 ELSE u \div v
         [] op = "rem_u" -> IF v = 0 THEN u ELSE u % v
High(name, a, b) ==
    LET x == IF name = "mul_high_u_reg" THEN a ELSE Signed("i64", a)
        y == IF name = "mul_high_s_reg" THEN Signed("i64", b) ELSE b
    IN (x * y) \div 256

Holds(name, a, b) ==
    LET x == Signed("i64", a)
        y == Signed("i64", b)
    IN CASE name = "branch_eq" -> a = b [] name = "branch_ne" -> a # b
         [] name = "branch_lt_s" -> x < y [] name = "branch_ge_s" -> x >= y
         [] name = "branch_lt_u" -> a < b [] name = "branch_ge_u" -> a >= b

(* Memory; a write to executable memory ends the block of code.            *)
Mapped(m, address, count) == Bytes(address, count) \subseteq DOMAIN m.mem
Got(m, address, count, signed) ==
    LET u == ReadBytes(m.mem, address, count)
    IN IF signed /\ u >= 2 ^ (count - 1) THEN u - 2 ^ count ELSE u
Stored(m, address, count, value, next) ==
    IF ~Mapped(m, address, count) THEN Leave(m, <<"fault", address>>)
    ELSE Leave([m EXCEPT !.mem = WriteBytes(@, address, count, value)],
               IF Bytes(address, count) \cap m.dirty = {} THEN <<>> ELSE <<"continue", next>>)
Combined(op, half, old, value) ==
    LET x == Number(half, old)
        y == Number(half, value)
        u == Part(half, old)
        v == Part(half, value)
    IN CASE op = "swap" -> y
         [] op \in {"add", "xor", "and", "or"} -> Ordinary(op, half, old, value)
         [] op = "lt_s" -> IF x < y THEN x ELSE y [] op = "gt_s" -> IF x > y THEN x ELSE y
         [] op = "lt_u" -> IF u < v THEN u ELSE v [] op = "gt_u" -> IF u > v THEN u ELSE v

Accesses(m, i, a, b, next) ==
    LET address == (a + i.imm) % 256
        name == i.opcode
        Fault == Leave(m, <<"fault", address>>)
    IN CASE name \in DOMAIN Loads ->
                IF ~Mapped(m, address, Loads[name][1]) THEN Fault
                ELSE Written(m, i.dest, Got(m, address, Loads[name][1], Loads[name][2]))
         [] name \in DOMAIN Stores -> Stored(m, address, Stores[name], b, next)
         [] name \in {"load_float", "load_double"} ->
                LET half == name = "load_float"
                    count == IF half THEN 4 ELSE 8
                IN IF ~Mapped(m, address, count) THEN Fault
                   ELSE WrittenF(m, i.dest, half, Got(m, address, count, FALSE))
         [] name \in {"store_float", "store_double"} ->
                Stored(m, address, IF name = "store_float" THEN 4 ELSE 8, m.fregs[i.src2], next)
Atomic(m, i, pc, a, b, next) ==
    LET name == i.opcode
        half == name \in {"load_reserved_w", "store_conditional_w"} \/ (name \in DOMAIN Amo /\ Amo[name][2])
        count == IF half THEN 4 ELSE 8
        old == Got(m, a, count, TRUE)
    IN IF a % count # 0 THEN Leave(m, <<"misaligned", pc>>)
       ELSE IF ~Mapped(m, a, count) THEN Leave(m, <<"fault", a>>)
       ELSE CASE name \in {"load_reserved_w", "load_reserved_d"} -> [Written(m, i.dest, old) EXCEPT !.reserved = Bytes(a, count)]
              [] name \in {"store_conditional_w", "store_conditional_d"} ->
                     LET done == [m EXCEPT !.reserved = {}]
                     IN IF ~(Bytes(a, count) \subseteq m.reserved) THEN Written(done, i.dest, 1)
                        ELSE Stored(Written(done, i.dest, 0), a, count, b, next)
              [] name \in DOMAIN Amo ->
                     Stored(Written(m, i.dest, old), a, count, Combined(Amo[name][1], half, old, b), next)

-----------------------------------------------------------------------------
(* The csr of floats: its lower five bits are flags, the others the mode.  *)
Field(csr) == CASE csr = 1 -> <<1, 32>> [] csr = 2 -> <<32, 8>> [] csr = 3 -> <<1, 256>>
Csr(m, i, pc, a) ==
    LET name == i.opcode
        imm == name \in {"csr_read_write_imm", "csr_read_and_set_imm", "csr_read_and_clear_imm"}
        operand == IF imm THEN i.imm ELSE a
        unit == Field(i.misc)[1]
        size == Field(i.misc)[2]
        old == (m.csr \div unit) % size
        new == CASE name \in {"csr_read_write", "csr_read_write_imm"} -> operand % size
                 [] name \in {"csr_read_and_set", "csr_read_and_set_imm"} -> old | (operand % size)
                 [] name \in {"csr_read_and_clear", "csr_read_and_clear_imm"} -> old & (size - 1 - (operand % size))
        writes == name \in {"csr_read_write", "csr_read_write_imm"} \/ (IF imm THEN i.imm ELSE i.src1) # 0
    IN CASE i.misc \in ReadOnlyCsrs -> Leave(m, <<IF writes THEN "illegal" ELSE "csr", pc>>)
         [] i.misc \in FloatCsrs -> [Written(m, i.dest, old) EXCEPT !.csr = @ + (new - old) * unit]
         [] OTHER -> Leave(m, <<"illegal", pc>>)

(* Floats.  The arithmetic is the one of Float; a result that is a NaN is  *)
(* the canonical one, and of a minimum or maximum the other operand.       *)
Canonical(half, value) == IF IsNan(F(half), value) THEN CanonicalNan(half) ELSE value
Arith(half, name, operands) == Canonical(half, Wrap(F(half), Float(F(half), name, operands)))
Extreme(half, name, x, y) ==
    IF IsNan(F(half), x) THEN Canonical(half, y) ELSE IF IsNan(F(half), y) THEN x ELSE Arith(half, name, <<x, y>>)
Flip(half, value) == (value + 2 ^ (Bits(half) - 1)) % 2 ^ Bits(half)
SignSet(half, value, negative) == Magnitude(F(half), value) + 2 ^ (Bits(half) - 1) * Truth(negative)
Floats(m, i, a) ==
    LET name == i.opcode
        f == m.fregs
        Of(half, reg) == Unboxed(half, f[reg])
    IN CASE name \in DOMAIN Simple ->
                LET half == Simple[name][2]
                    op == Simple[name][1]
                    x == Of(half, i.src1)
                    y == Of(half, i.src2)
                IN WrittenF(m, i.dest, half, IF op \in {"min", "max"} THEN Extreme(half, op, x, y) ELSE Arith(half, op, <<x, y>>))
         [] name \in DOMAIN Large ->
                LET half == Large[name][3]
                    product == Wrap(F(half), Float(F(half), "mul", <<Of(half, i.src1), Of(half, i.src2)>>))
                    sum == Wrap(F(half), Float(F(half), Large[name][1], <<product, Of(half, i.src3)>>))
                IN WrittenF(m, i.dest, half, Canonical(half, IF Large[name][2] THEN Flip(half, sum) ELSE sum))
         [] name = "float_to_double" -> WrittenF(m, i.dest, FALSE, Canonical(FALSE, Wrap("f64", Float("f64", "promote", <<Of(TRUE, i.src1)>>))))
         [] name = "double_to_float" -> WrittenF(m, i.dest, TRUE, Canonical(TRUE, Wrap("f32", Float("f32", "demote", <<f[i.src1]>>))))
         [] name \in {"float_sqrt", "double_sqrt"} ->
                LET half == Unaries[name] IN WrittenF(m, i.dest, half, Arith(half, "sqrt", <<Of(half, i.src1)>>))
         [] name \in {"float_classify", "double_classify"} ->
                Written(m, i.dest, ClassifyFloat(F(Unaries[name]), Of(Unaries[name], i.src1)))
         [] name \in DOMAIN Compares ->
                LET half == Compares[name][2]
                IN Written(m, i.dest, Float(F(half), Compares[name][1], <<Of(half, i.src1), Of(half, i.src2)>>) % 2)
         [] name \in DOMAIN Signs ->
                LET half == Signs[name][2]
                    x == Of(half, i.src1)
                    one == Negative(F(half), x)
                    two == Negative(F(half), Of(half, i.src2))
                IN WrittenF(m, i.dest, half, SignSet(half, x,
                       CASE Signs[name][1] = "copy" -> two [] Signs[name][1] = "invert" -> ~two
                         [] Signs[name][1] = "xor" -> one # two))
         [] name \in DOMAIN FloatToInt ->
                LET kind == FloatToInt[name][1]
                    word == FloatToInt[name][2]
                    half == FloatToInt[name][3]
                    x == Of(half, i.src1)
                    largest == IF kind = "s" THEN 2 ^ (Bits(word) - 1) - 1 ELSE 2 ^ Bits(word) - 1
                IN Written(m, i.dest,
                       IF kind = "move" THEN Extended(half, f[i.src1])
                       ELSE Extended(word, IF IsNan(F(half), x) THEN largest ELSE Convert(F(half), T(word), kind, x)))
         [] name \in DOMAIN IntToFloat ->
                LET kind == IntToFloat[name][1]
                    word == IntToFloat[name][2]
                    half == IntToFloat[name][3]
                IN WrittenF(m, i.dest, half,
                       IF kind = "move" THEN Part(half, a) ELSE Convert(T(word), F(half), kind, Part(word, a)))

(* The instructions that accrue the flags of the exceptions they meet.     *)
Accruing == DOMAIN Simple \cup DOMAIN Large \cup DOMAIN Compares \cup {"float_to_double", "double_to_float", "float_sqrt", "double_sqrt"}
            \cup {name \in DOMAIN FloatToInt : FloatToInt[name][1] # "move"}
            \cup {name \in DOMAIN IntToFloat : IntToFloat[name][1] # "move"}
Accrued(m, i, a) ==
    IF i.opcode \notin Accruing THEN m
    ELSE [m EXCEPT !.csr = @ | Raised(i.opcode, <<a, m.fregs[i.src1], m.fregs[i.src2], m.fregs[i.src3]>>)]

-----------------------------------------------------------------------------
(* The instruction i at pc, with the next one at next.  Which jumps are    *)
(* calls and returns is what the hints on the link registers say.          *)
Link == {1, 5}
Hint(dest, src1) ==
    CASE dest \in Link /\ src1 \in Link /\ dest # src1 -> "jump" [] dest \in Link -> "call"
      [] src1 \in Link -> "ret" [] OTHER -> "jump"
Isa(i, pc, next, m) ==
    LET name == i.opcode
        a == m.regs[i.src1]
        b == m.regs[i.src2]
        to == (pc + i.imm) % 256
    IN CASE name \in {"ebreak", "misaligned"} -> Leave(m, <<name, pc>>)
         [] name = "illegal_instruction" -> Leave(m, <<"illegal", pc>>)
         [] name = "ecall" -> Leave(m, <<"syscall", next>>)
         [] name = "fence_inst" -> Leave(m, <<"continue", next>>)
         [] name \in {"nop", "fence"} -> m
         [] name \in {"load_upper_imm", "multi_load_imm"} -> Written(m, i.dest, i.imm)
         [] name = "add_upper_imm_pc" -> Written(m, i.dest, pc + i.imm)
         [] name = "jump_and_link_imm" -> Leave(Written(m, i.dest, next), <<Hint(i.dest, 0), to, next>>)
         [] name = "jump_and_link_reg" ->
                LET target == (a + i.imm) % 256
                IN Leave(Written(m, i.dest, next), <<Hint(i.dest, i.src1), target - (target % 2), next>>)
         [] name \in DOMAIN Branches -> IF Holds(name, a, b) THEN Leave(m, <<"jump", to, next>>) ELSE m
         [] name \in DOMAIN AluImm ->
                Written(m, i.dest, Extended(AluImm[name][2], Ordinary(AluImm[name][1], AluImm[name][2], a, i.imm % 256)))
         [] name \in DOMAIN AluReg ->
                Written(m, i.dest, Extended(AluReg[name][2], Ordinary(AluReg[name][1], AluReg[name][2], a, b)))
         [] name \in DOMAIN DivRem ->
                Written(m, i.dest, Extended(DivRem[name][2], Ordinary(DivRem[name][1], DivRem[name][2], a, b)))
         [] name \in {"mul_high_s_reg", "mul_high_s_u_reg", "mul_high_u_reg"} -> Written(m, i.dest, High(name, a, b))
         [] name \in DOMAIN Loads \cup DOMAIN Stores \cup {"load_float", "load_double", "store_float", "store_double"} ->
                Accesses(m, i, a, b, next)
         [] name \in DOMAIN Amo \cup {"load_reserved_w", "load_reserved_d", "store_conditional_w", "store_conditional_d"} ->
                Atomic(m, i, pc, a, b, next)
         [] name \in {"csr_read_write", "csr_read_and_set", "csr_read_and_clear", "csr_read_write_imm",
                      "csr_read_and_set_imm", "csr_read_and_clear_imm"} -> Csr(m, i, pc, a)
         [] OTHER -> Floats(Accrued(m, i, a), i, a)
Seen(m) == [regs |-> m.regs, fregs |-> m.fregs, csr |-> m.csr, mem |-> m.mem, out |-> m.out]
=============================================================================
