-------------------------------- MODULE Wasm --------------------------------
(***************************************************************************)
(* The machine that the generated code runs on: the instructions of        *)
(* WebAssembly that rv64::Translate and gen::Writer emit, and the guest's  *)
(* registers and memory they reach (gen::detail::ContextWriter and         *)
(* gen::detail::MemoryWriter).                                             *)
(*                                                                         *)
(* The widths are scaled down: a double word has 8 bits, a word 4, a half  *)
(* word 2 and a byte 1, so that a double word is still eight bytes.  A     *)
(* value is a pair of its type and its bits, as a number.  Code that does  *)
(* not validate (a value of another type, or none) ends as "invalid".      *)
(***************************************************************************)
EXTENDS Integers, Sequences, SequencesExt, Bitwise

CONSTANT Float(_, _, _)     \* the bits of the result of a float operation, by type, name and operands

Width(type) == IF type \in {"i32", "f32"} THEN 4 ELSE 8
Wrap(type, value) == value % 2 ^ Width(type)
Signed(type, value) == IF value >= 2 ^ (Width(type) - 1) THEN value - 2 ^ Width(type) ELSE value
Truth(condition) == IF condition THEN 1 ELSE 0
Opposite(value) == IF value < 0 THEN -value ELSE value

(* Quotient and remainder as they are rounded towards zero.                *)
Quotient(a, b) == (IF (a < 0) = (b < 0) THEN 1 ELSE -1) * (Opposite(a) \div Opposite(b))
Remainder(a, b) == a - b * Quotient(a, b)

(* A float has a sign, and 2 or 4 bits of exponent before its mantissa.    *)
Mantissa(type) == IF type = "f32" THEN 2 ELSE 8
Negative(type, value) == value >= 2 ^ (Width(type) - 1)
Magnitude(type, value) == value % 2 ^ (Width(type) - 1)
Infinite(type) == 2 ^ (Width(type) - 1) - Mantissa(type)
IsNan(type, value) == Magnitude(type, value) > Infinite(type)

Comparisons == {"eq", "ne", "lt_s", "lt_u", "gt_s", "gt_u", "ge_s", "ge_u", "lt", "le"}

(* The result of an operation of two operands; wasm masks a shift.         *)
Two(type, name, a, b) ==
    LET x == Signed(type, a)
        y == Signed(type, b)
        by == 2 ^ (b % Width(type))
    IN IF type \in {"f32", "f64"} THEN
            CASE name = "copysign" -> Magnitude(type, a) + 2 ^ (Width(type) - 1) * Truth(Negative(type, b))
              [] name = "ne" -> Truth(a # b \/ IsNan(type, a))
              [] name \in {"eq", "lt", "le"} -> Float(type, name, <<a, b>>) % 2
              [] OTHER -> Wrap(type, Float(type, name, <<a, b>>))
       ELSE CASE name = "add" -> Wrap(type, a + b) [] name = "sub" -> Wrap(type, a - b)
              [] name = "mul" -> Wrap(type, a * b)
              [] name = "and" -> a & b [] name = "or" -> a | b [] name = "xor" -> a ^^ b
              [] name = "shl" -> Wrap(type, a * by) [] name = "shr_u" -> a \div by [] name = "shr_s" -> Wrap(type, x \div by)
              [] name = "div_u" -> a \div b [] name = "rem_u" -> a % b
              [] name = "div_s" -> Wrap(type, Quotient(x, y)) [] name = "rem_s" -> Wrap(type, Remainder(x, y))
              [] name = "eq" -> Truth(a = b) [] name = "ne" -> Truth(a # b)
              [] name = "lt_s" -> Truth(x < y) [] name = "lt_u" -> Truth(a < b)
              [] name = "gt_s" -> Truth(x > y) [] name = "gt_u" -> Truth(a > b)
              [] name = "ge_s" -> Truth(x >= y) [] name = "ge_u" -> Truth(a >= b)

Traps(type, name, a, b) ==
    /\ type \in {"i32", "i64"}
    /\ \/ name \in {"div_u", "div_s", "rem_u", "rem_s"} /\ b = 0
       \/ name = "div_s" /\ Signed(type, b) = -1 /\ a = 2 ^ (Width(type) - 1)

(* fClassifyf32 and fClassifyf64, which the code calls back: the number of *)
(* the bit that is set in the answer.                                      *)
ClassifyFloat(type, value) ==
    LET sign == Negative(type, value)
        size == Magnitude(type, value)
    IN CASE size = Infinite(type) -> IF sign THEN 0 ELSE 7
         [] size = 0 -> IF sign THEN 3 ELSE 4
         [] size \in 1..Mantissa(type) - 1 -> IF sign THEN 2 ELSE 5
         [] size > Infinite(type) -> IF size % Mantissa(type) >= Mantissa(type) \div 2 THEN 9 ELSE 8
         [] OTHER -> IF sign THEN 1 ELSE 6

(* Conversions: the type of the operand, of the result, and the result.    *)
Conversion(name, a) ==
    CASE name = "eqz32" -> <<"i32", "i32", Truth(a = 0)>> [] name = "eqz64" -> <<"i64", "i32", Truth(a = 0)>>
      [] name = "expand_s" -> <<"i32", "i64", Wrap("i64", Signed("i32", a))>>
      [] name = "expand_u" -> <<"i32", "i64", a>> [] name = "shrink" -> <<"i64", "i32", Wrap("i32", a)>>
      [] name = "f32_bits" -> <<"f32", "i32", a>> [] name = "f64_bits" -> <<"f64", "i64", a>>
      [] name = "bits_f32" -> <<"i32", "f32", a>> [] name = "bits_f64" -> <<"i64", "f64", a>>
      [] name = "neg32" -> <<"f32", "f32", (a + 8) % 16>> [] name = "neg64" -> <<"f64", "f64", (a + 128) % 256>>
      [] name = "sqrt32" -> <<"f32", "f32", Wrap("f32", Float("f32", "sqrt", <<a>>))>>
      [] name = "sqrt64" -> <<"f64", "f64", Wrap("f64", Float("f64", "sqrt", <<a>>))>>
      [] name = "promote" -> <<"f32", "f64", Wrap("f64", Float("f64", "promote", <<a>>))>>
      [] name = "demote" -> <<"f64", "f32", Wrap("f32", Float("f32", "demote", <<a>>))>>

(* Conversions between numbers and floats, from one type to another.       *)
Convert(from, to, sign, a) == Wrap(to, Float(to, sign, <<a, Width(from)>>))

-----------------------------------------------------------------------------
(* The state of the machine.  out tells how the code was left; the         *)
(* addresses a load has reserved are kept by no code.                      *)
Machine(regs, fregs, csr, mem, dirty) ==
    [stack |-> <<>>, regs |-> regs, fregs |-> fregs, csr |-> csr, mem |-> mem, dirty |-> dirty,
     locals |-> [key \in {} |-> 0], out |-> <<>>, reserved |-> {}]
Push(m, type, value) == [m EXCEPT !.stack = Append(@, <<type, value>>)]
Leave(m, out) == [m EXCEPT !.out = out]
ReadPlace(m, place) ==
    CASE place[1] = "regs" -> m.regs[place[2]] [] place[1] = "fregs" -> m.fregs[place[2]] [] place[1] = "csr" -> m.csr
WritePlace(m, place, value) ==
    CASE place[1] = "regs" -> [m EXCEPT !.regs[place[2]] = value]
      [] place[1] = "fregs" -> [m EXCEPT !.fregs[place[2]] = value]
      [] place[1] = "csr" -> [m EXCEPT !.csr = value]

(* Memory: the bytes there are, read and written in their order.           *)
Bytes(address, count) == {address + i : i \in 0..count - 1}
ReadBytes(mem, address, count) ==
    FoldLeft(LAMBDA sum, i : sum + mem[address + i - 1] * 2 ^ (i - 1), 0, [i \in 1..count |-> i])
WriteBytes(mem, address, count, value) ==
    [a \in DOMAIN mem |-> IF a \in Bytes(address, count) THEN (value \div 2 ^ (a - address)) % 2 ELSE mem[a]]

(* The types an instruction takes from the stack, the last one on its top. *)
Takes(op) ==
    CASE op[1] \in {"const", "load", "place", "local", "block", "leave", "jump", "raise"} -> <<>>
      [] op[1] = "store" -> <<"place", op[2]>>
      [] op[1] \in {"tee", "keep", "drop"} -> <<op[2]>>
      [] op[1] = "two" -> <<op[2], op[2]>>
      [] op[1] = "one" -> <<Conversion(op[2], 0)[1]>>
      [] op[1] = "convert" -> <<op[2]>>
      [] op[1] = "select" -> <<op[2], op[2], "i32">>
      [] op[1] = "if" -> <<"i32">>
      [] op[1] \in {"read", "goto", "invoke"} -> <<"i64">>
      [] op[1] = "write" -> <<"i64", op[2]>>

RECURSIVE Run(_, _)
(* One instruction, with the values it has taken.                          *)
Effect(op, m, v) ==
    CASE op[1] = "const" -> Push(m, op[2], Wrap(op[2], op[3]))
      [] op[1] = "load" -> Push(m, op[2], Wrap(op[2], ReadPlace(m, op[3])))
      [] op[1] = "place" -> Push(m, "place", op[2])
      [] op[1] = "store" -> WritePlace(m, v[1], v[2])
      [] op[1] = "local" -> IF <<op[2], op[3]>> \in DOMAIN m.locals THEN Push(m, op[2], m.locals[<<op[2], op[3]>>])
                            ELSE Push(m, op[2], 0)
      [] op[1] \in {"tee", "keep"} ->
             LET set == [m EXCEPT !.locals = [key \in DOMAIN @ \cup {<<op[2], op[3]>>} |->
                                                 IF key = <<op[2], op[3]>> THEN v[1] ELSE @[key]]]
             IN IF op[1] = "tee" THEN Push(set, op[2], v[1]) ELSE set
      [] op[1] = "drop" -> m
      [] op[1] = "two" -> IF Traps(op[2], op[3], v[1], v[2]) THEN Leave(m, <<"trap">>)
                          ELSE Push(m, IF op[3] \in Comparisons THEN "i32" ELSE op[2], Two(op[2], op[3], v[1], v[2]))
      [] op[1] = "one" -> LET c == Conversion(op[2], v[1]) IN Push(m, c[2], c[3])
      [] op[1] = "convert" -> Push(m, op[3], Convert(op[2], op[3], op[4], v[1]))
      [] op[1] = "select" -> Push(m, op[2], IF v[3] # 0 THEN v[1] ELSE v[2])
      [] op[1] = "if" -> Run(IF v[1] # 0 THEN op[2] ELSE op[3], m)
      [] op[1] = "block" -> LET inner == Run(op[2], m) IN IF inner.out = <<"leave">> THEN Leave(inner, <<>>) ELSE inner
      [] op[1] = "leave" -> Leave(m, <<"leave">>)
      [] op[1] = "read" -> IF ~(Bytes(v[1], op[3]) \subseteq DOMAIN m.mem) THEN Leave(m, <<"fault", v[1]>>)
                           ELSE LET u == ReadBytes(m.mem, v[1], op[3])
                                IN Push(m, op[2], IF op[4] /\ u >= 2 ^ (op[3] - 1) THEN Wrap(op[2], u - 2 ^ op[3]) ELSE u)
      [] op[1] = "write" -> IF ~(Bytes(v[1], op[3]) \subseteq DOMAIN m.mem) THEN Leave(m, <<"fault", v[1]>>)
                            ELSE LET written == [m EXCEPT !.mem = WriteBytes(m.mem, v[1], op[3], v[2])]
                                 IN IF Bytes(v[1], op[3]) \cap m.dirty = {} THEN written
                                    ELSE Leave(written, <<"continue", op[4]>>)
      [] op[1] = "goto" -> Leave(m, <<op[2], v[1], op[3]>>)
      [] op[1] = "jump" -> Leave(m, <<op[2], Wrap("i64", op[3]), op[4]>>)
      [] op[1] = "raise" -> Leave(m, <<op[2], op[3]>>)
      [] op[1] = "invoke" -> Push(m, "i64", IF op[2] = "warn" THEN 0 ELSE ClassifyFloat(op[2], v[1]))

Do(op, m) ==
    LET types == Takes(op)
        rest == Len(m.stack) - Len(types)
    IN IF rest < 0 \/ \E k \in 1..Len(types) : m.stack[rest + k][1] # types[k] THEN Leave(m, <<"invalid">>)
       ELSE Effect(op, [m EXCEPT !.stack = SubSeq(@, 1, rest)], [k \in 1..Len(types) |-> m.stack[rest + k][2]])

Run(code, m) == FoldLeft(LAMBDA s, op : IF s.out # <<>> THEN s ELSE Do(op, s), m, code)

(* What is seen of the code of one instruction: it leaves no value behind. *)
Outcome(code, m) ==
    LET end == Run(code, m)
    IN [regs |-> end.regs, fregs |-> end.fregs, csr |-> end.csr, mem |-> end.mem,
        out |-> IF end.out = <<>> /\ end.stack # <<>> THEN <<"invalid">> ELSE end.out]
=============================================================================
