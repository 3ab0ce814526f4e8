------------------------------ MODULE MCRiscv ------------------------------
(***************************************************************************)
(* The front end on bounded inputs.  A state is one input: compressed      *)
(* words of one code, words of one opcode, an instruction with its         *)
(* registers and immediate, or neighboring instructions to join.  The rest *)
(* of an input is quantified over in the properties.                       *)
(***************************************************************************)
EXTENDS Riscv

(* Some function that tells every operation and operand apart.             *)
FloatNames == <<"add", "sub", "mul", "div", "min", "max", "eq", "lt", "le", "sqrt", "promote", "demote", "s", "u">>
FloatHash(type, name, operands) ==
    7 * (CHOOSE k \in DOMAIN FloatNames : FloatNames[k] = name) + 3 * operands[1] + operands[1] \div 2
    + IF Len(operands) = 2 THEN 5 * operands[2] * operands[2] + 11 * operands[2] ELSE 0

(* Some flags of the five there are.                                       *)
RaisedHash(name, operands) == FoldLeft(LAMBDA sum, k : (3 * sum + operands[k]) % 32, 1, [k \in DOMAIN operands |-> k])

VARIABLE input
vars == input

-----------------------------------------------------------------------------
(* Instructions.                                                           *)
CsrWrites == {"csr_read_write", "csr_read_and_set", "csr_read_and_clear"}
CsrImms == {"csr_read_write_imm", "csr_read_and_set_imm", "csr_read_and_clear_imm"}
HighProducts == {"mul_high_s_reg", "mul_high_s_u_reg", "mul_high_u_reg"}
FloatAccesses == {"load_float", "load_double", "store_float", "store_double"}
Reserved == {"load_reserved_w", "load_reserved_d"}
Conditional == {"store_conditional_w", "store_conditional_d"}
Alone == {"ebreak", "illegal_instruction", "ecall", "fence_inst", "nop", "fence"}
Upper == {"load_upper_imm", "add_upper_imm_pc"}
Jumps == {"jump_and_link_imm"} \cup DOMAIN Branches
Shifts == {name \in DOMAIN AluImm : AluImm[name][1] \in {"shl", "shr_u", "shr_s"}}
Offsets == {"jump_and_link_reg"} \cup (DOMAIN AluImm \ Shifts) \cup DOMAIN Loads \cup DOMAIN Stores \cup FloatAccesses
FloatNamed == DOMAIN Simple \cup DOMAIN Large \cup DOMAIN Signs \cup DOMAIN Compares \cup DOMAIN Unaries
              \cup DOMAIN FloatToInt \cup DOMAIN IntToFloat \cup {"float_to_double", "double_to_float"}
Plain == DOMAIN AluReg \cup DOMAIN DivRem \cup HighProducts \cup DOMAIN Amo \cup Reserved \cup Conditional
         \cup CsrWrites \cup FloatNamed
Names == Alone \cup Upper \cup Jumps \cup Shifts \cup Offsets \cup CsrImms \cup Plain

Immediates(name) ==
    CASE name \in Shifts -> IF AluImm[name][2] THEN {0, 1, 3} ELSE {0, 1, 3, 7}
      [] name \in Offsets -> {-8, -1, 0, 1, 7} [] name \in Upper -> {-16, 0, 32}
      [] name \in Jumps -> {-16, 0, 6} [] name \in CsrImms -> {0, 1, 9, 31} [] OTHER -> {0}
Miscs(name) == IF name \in CsrWrites \cup CsrImms THEN FloatCsrs \cup {3072, 9} ELSE IF name \in FloatNamed THEN {0, 1} ELSE {0}

(* The destination and the sources: the same, different ones, x0, and the  *)
(* link registers 1 and 5.                                                 *)
Triples == {<<0, 5, 6>>, <<5, 0, 6>>, <<5, 6, 0>>, <<5, 5, 6>>, <<5, 6, 5>>, <<5, 5, 5>>, <<1, 5, 6>>, <<5, 0, 0>>,
            <<0, 1, 5>>, <<5, 1, 1>>, <<5, 5, 0>>}
Instruction(name, triple, imm, misc) ==
    [Invalid(4) EXCEPT !.opcode = name, !.dest = triple[1], !.src1 = triple[2], !.src2 = triple[3],
        !.src3 = IF triple[3] = 0 THEN 5 ELSE triple[2], !.imm = imm, !.misc = misc]

(* Registers with edge values, and memory with something in it, of which   *)
(* two bytes may be executable code that is translated.                    *)
PC == 100
NEXT == PC + 4
Edges == {0, 1, 7, 8, 15, 64, 72, 127, 128, 255}
Memory == [address \in 64..79 |-> IF address \in {64, 66, 67, 70, 75, 76, 79} THEN 1 ELSE 0]
Before(a, b, dirty) ==
    Machine([r \in {0, 1, 5, 6} |-> CASE r = 0 -> 0 [] r = 1 -> 33 [] r = 5 -> a [] r = 6 -> b],
            [r \in {0, 1, 5, 6} |-> CASE r = 0 -> 131 [] r = 1 -> 241 [] r = 5 -> a [] r = 6 -> 240 + (b % 16)],
            (a * 3 + b) % 256, Memory, dirty)
Machines == {Before(a, b, dirty) : a, b \in Edges, dirty \in {{}, {65, 66}}}

(* For floats also with words in all their registers, and for conditional  *)
(* stores with a reservation.                                              *)
Words32 == {[m EXCEPT !.fregs = [r \in DOMAIN @ |-> 240 + (@[r] % 16)]] : m \in {n \in Machines : n.dirty = {}}}
Holding == {[m EXCEPT !.reserved = 0..255] : m \in Machines}
MachinesFor(name) ==
    CASE name \in FloatNamed -> Machines \cup Words32 [] name \in Conditional -> Machines \cup Holding [] OTHER -> Machines

(* The operands that an instruction takes from registers of floats, and    *)
(* whether they are words.                                                 *)
FloatForms == Simple @@ Signs @@ Compares
FloatSources(i) ==
    CASE i.opcode \in DOMAIN FloatForms -> {i.src1, i.src2} [] i.opcode \in DOMAIN Large -> {i.src1, i.src2, i.src3}
      [] i.opcode \in DOMAIN IntToFloat -> {} [] OTHER -> {i.src1}
OfWords(name) ==
    CASE name \in DOMAIN FloatForms -> FloatForms[name][2] [] name \in DOMAIN Large -> Large[name][3]
      [] name \in DOMAIN Unaries -> Unaries[name] [] name \in DOMAIN FloatToInt -> FloatToInt[name][3]
      [] OTHER -> name = "float_to_double"

(* Where the code is known to differ (see the README).                     *)
Crossed(a, b) == (((a % 16) * (b % 16)) \div 16) + (a % 16) * (b \div 16) + (b % 16) * (a \div 16)
ResultIsNan(i, m) ==
    LET half == CASE i.opcode \in DOMAIN Simple -> Simple[i.opcode][2] [] i.opcode \in DOMAIN Large -> Large[i.opcode][3]
                  [] i.opcode \in DOMAIN Unaries -> Unaries[i.opcode] [] OTHER -> i.opcode = "double_to_float"
    IN IsNan(F(half), Part(half, Isa(i, PC, NEXT, m).fregs[i.dest]))
FloatDeviates(i, m) ==
    LET name == i.opcode
        half == OfWords(name)
    IN \/ half /\ name # "float_move_to_word" /\ \E src \in FloatSources(i) : ~Boxed(m.fregs[src])
       \/ /\ name \in DOMAIN Simple /\ Simple[name][1] \in {"min", "max"}
          /\ \E src \in FloatSources(i) : IsNan(F(half), Unboxed(half, m.fregs[src]))
       \/ /\ name \in DOMAIN Simple \cup DOMAIN Large \cup {"float_sqrt", "double_sqrt", "float_to_double", "double_to_float"}
          /\ ResultIsNan(i, m)
Deviates(i, m) ==
    LET name == i.opcode
        a == m.regs[i.src1]
        b == m.regs[i.src2]
    IN \/ name = "branch_eq" /\ i.src1 = 0 /\ i.src2 # 0
       \/ name \in DOMAIN Compares \cup {"float_classify", "double_classify"} /\ i.dest = 0
       \/ name \in DOMAIN Loads \cup Reserved /\ i.dest = 0
       \/ name = "jump_and_link_reg" /\ (a + i.imm) % 2 # 0
       \/ name \in CsrWrites \cup CsrImms /\ i.misc \notin FloatCsrs \cup ReadOnlyCsrs
       \/ name \in CsrWrites /\ i.dest = i.src1 /\ i.dest # 0
       \/ name = "div_s_reg_half" /\ a % 16 = 8 /\ b % 16 = 15
       \/ name \in DOMAIN DivRem /\ DivRem[name][1] \in {"rem_s", "rem_u"} /\ i.src2 = 0 /\ (DivRem[name][2] \/ i.src1 = i.dest)
       \/ name = "float_convert_to_word_u" /\ IsNan("f32", m.fregs[i.src1] % 16)
       \/ name = "double_convert_to_word_u" /\ IsNan("f64", m.fregs[i.src1])
       \/ name \in HighProducts /\ Crossed(a, b) >= 256
       \/ name \in DOMAIN Amo \cup Conditional /\ i.dest # 0 /\ Bytes(a, 8) \cap m.dirty # {}
       \/ name \in Conditional /\ m.reserved = {}
       \/ name \in FloatNamed /\ FloatDeviates(i, m)

-----------------------------------------------------------------------------
(* Neighbors: lui or auipc, and up to three instructions behind it.        *)
First(name, reg, imm) == [Invalid(4) EXCEPT !.opcode = name, !.dest = reg, !.imm = imm]
Joinable == DOMAIN ReplacesRegister \cup DOMAIN ReadsRegister \cup {"jump_and_link_reg"}
Fault == [Invalid(0) EXCEPT !.opcode = "fault"]
Second(name, triple, imm) == Instruction(name, triple, imm, 0)
AfterLui == {<<"add_imm", 3>>, <<"add_imm", -8>>, <<"shift_left_logic_imm", 1>>}

(* The instructions asked for, as if next went on after the first; behind  *)
(* the last of them the memory cannot be executed.                         *)
Asked(raw) ==
    LET first == MatchFirst(None, raw[1])
        step[k \in 1..Len(raw)] ==
            IF k = 1 THEN [first EXCEPT !.detect = Original(@, raw[1])]
            ELSE IF ~step[k - 1].more THEN step[k - 1] ELSE Continue(step[k - 1].detect, raw[k])
        last == step[Len(raw)]
    IN IF last.more THEN Close(last.detect) ELSE last.inst
(* What the first of the instructions do one after another.                *)
Straight(raw, count, m) ==
    FoldLeft(LAMBDA s, k : IF s.out # <<>> THEN s ELSE Isa(raw[k], PC + 4 * (k - 1), PC + 4 * k, s),
             m, [k \in 1..count |-> k])
SameAs(inst, raw, m) ==
    Outcome(Code(inst, PC, PC + inst.size), m) = Seen(Straight(raw, inst.size \div 4, m))

(* Joined by code that is never reached, and known to differ.              *)
JoinDeviates(raw, m) ==
    LET i == raw[2]
    IN /\ raw[1].opcode = "add_upper_imm_pc"
       /\ \/ i.opcode \notin Joinable \/ i.opcode = "jump_and_link_reg"
          \/ i.opcode \in DOMAIN Stores /\ i.src2 = i.src1
          \/ i.opcode \in DOMAIN Loads /\ Straight(raw, 2, m).out # <<>>

-----------------------------------------------------------------------------
(* Words that are not compressed, by their parts.                          *)
Word(opcode, funct3, funct7, rd, rs1, rs2) ==
    <<opcode + 128 * rd + 4096 * funct3 + 32768 * (rs1 % 2), (rs1 \div 2) + 16 * rs2 + 512 * funct7>>
Flipped(word, bit) ==
    [half \in {1, 2} |->
        LET k == bit - 16 * (half - 1)
        IN IF k \notin 0..15 THEN word[half]
           ELSE IF (word[half] \div 2 ^ k) % 2 = 1 THEN word[half] - 2 ^ k ELSE word[half] + 2 ^ k]
Words(opcode, funct3) ==
    {Word(opcode, funct3, funct7, rs1 % 2, rs1, rs2) : funct7 \in 0..127, rs1 \in {0, 3}, rs2 \in {0, 2, 3}}
Shorts(quadrant, funct3) == {<<quadrant + 4 * rest + 8192 * funct3, 0>> : rest \in 0..2047}

(* The immediate of a compressed word by the list of its bits: which bit   *)
(* of the immediate is found at first, first - 1 and so on.                *)
Layout(word, first, bits) ==
    FoldLeft(LAMBDA sum, k : sum + GetU(word, first + 1 - k, first + 1 - k) * 2 ^ bits[k], 0, [k \in DOMAIN bits |-> k])
Wide(value, bits) == IF value >= 2 ^ (bits - 1) THEN value - 2 ^ bits ELSE value
Manual(quadrant, funct3, word) ==
    LET ci == Layout(word, 12, <<5>>) + Layout(word, 6, <<4, 3, 2, 1, 0>>)
        cl == Layout(word, 12, <<5, 4, 3>>)
    IN CASE quadrant = 0 /\ funct3 = 0 -> Layout(word, 12, <<5, 4, 9, 8, 7, 6, 2, 3>>)
         [] quadrant = 0 /\ funct3 \in {2, 6} -> cl + Layout(word, 6, <<2, 6>>)
         [] quadrant = 0 /\ funct3 \in {1, 3, 5, 7} -> cl + Layout(word, 6, <<7, 6>>)
         [] quadrant = 1 /\ funct3 \in {0, 1, 2} -> Wide(ci, 6)
         [] quadrant = 1 /\ funct3 = 3 ->
                IF Rd(word) = 2 THEN Wide(Layout(word, 12, <<9>>) + Layout(word, 6, <<4, 6, 8, 7, 5>>), 10)
                ELSE Wide(Layout(word, 12, <<17>>) + Layout(word, 6, <<16, 15, 14, 13, 12>>), 18)
         [] quadrant = 1 /\ funct3 = 4 ->
                IF GetU(word, 10, 11) < 2 THEN ci ELSE IF GetU(word, 10, 11) = 2 THEN Wide(ci, 6) ELSE 0
         [] quadrant = 1 /\ funct3 = 5 -> Wide(Layout(word, 12, <<11, 4, 9, 8, 10, 6, 7, 3, 2, 1, 5>>), 12)
         [] quadrant = 1 /\ funct3 \in {6, 7} ->
                Wide(Layout(word, 12, <<8, 4, 3>>) + Layout(word, 6, <<7, 6, 2, 1, 5>>), 9)
         [] quadrant = 2 /\ funct3 = 0 -> ci
         [] quadrant = 2 /\ funct3 = 2 -> Layout(word, 12, <<5>>) + Layout(word, 6, <<4, 3, 2, 7, 6>>)
         [] quadrant = 2 /\ funct3 \in {1, 3} -> Layout(word, 12, <<5>>) + Layout(word, 6, <<4, 3, 8, 7, 6>>)
         [] quadrant = 2 /\ funct3 = 6 -> Layout(word, 12, <<5, 4, 3, 2, 7, 6>>)
         [] quadrant = 2 /\ funct3 \in {5, 7} -> Layout(word, 12, <<5, 4, 3, 8, 7, 6>>)
         [] OTHER -> 0

-----------------------------------------------------------------------------
Init == input = <<"start">>
ChooseCode == input = <<"start">> /\ \E quadrant \in 0..2, funct3 \in 0..7 : input' = <<"short", quadrant, funct3>>
ChooseOpcode == input = <<"start">> /\ \E opcode \in {4 * k + 3 : k \in 0..31} : input' = <<"opcode", opcode>>
ChooseWord == input[1] = "opcode" /\ \E funct3 \in 0..7 : input' = <<"word", input[2], funct3>>
ChooseName == input = <<"start">> /\ \E name \in Names : input' = <<"name", name>>
ChooseInstruction ==
    /\ input[1] = "name"
    /\ \E triple \in Triples, imm \in Immediates(input[2]) : input' = <<"instruction", input[2], triple, imm>>
ChooseAuipc ==
    /\ input[1] = "name" /\ input[2] \in Joinable \cup {"add_reg"}
    /\ \E triple \in Triples, imm \in {-8, 3}, high \in {-48, -16} :
           input' = <<"pair", <<First("add_upper_imm_pc", 5, high), Second(input[2], triple, imm)>> >>
ChooseLui ==
    /\ input = <<"name", "load_upper_imm">>
    /\ \E k \in [1..3 -> AfterLui], reg \in {5, 6} :
           input' = <<"pair", <<First("load_upper_imm", 5, 32)>>
                              \o [n \in 1..3 |-> Second(k[n][1], <<5, IF n = 3 THEN reg ELSE 5, 0>>, k[n][2])]>>
Again == input # <<"start">> /\ input' = <<"start">>
NextInput == ChooseCode \/ ChooseOpcode \/ ChooseWord \/ ChooseName \/ ChooseInstruction \/ ChooseAuipc \/ ChooseLui \/ Again
Spec == Init /\ [][NextInput]_vars

-----------------------------------------------------------------------------
(* The code emitted for an instruction validates, leaves nothing on the    *)
(* stack, and does to registers, memory and control what the instruction   *)
(* is specified to do, whatever registers coincide or are x0.  Where it is *)
(* known to do otherwise is named: Deviates, and the flags of exceptions   *)
(* of floats, which no code accrues.                                       *)
TranslatesAsIsa ==
    input[1] = "instruction" =>
        \A misc \in Miscs(input[2]) :
            LET i == Instruction(input[2], input[3], input[4], misc)
                code == Code(i, PC, NEXT)
            IN \A m \in MachinesFor(i.opcode) :
                   LET specified == Seen(Isa(i, PC, NEXT, m))
                   IN Deviates(i, m) \/ Outcome(code, m) = IF i.opcode \in Accruing THEN [specified EXCEPT !.csr = m.csr] ELSE specified

(* No bit of a word is ignored: two words that differ in one bit are never *)
(* decoded to the same instruction.                                        *)
EveryBitCounts ==
    /\ input[1] = "word" =>
           \A word \in Words(input[2], input[3]) :
               LET i == Decode32(word)
               IN i.opcode # "_invalid" => \A bit \in 0..31 : Decode32(Flipped(word, bit)) # i
    /\ input[1] = "short" =>
           \A word \in Shorts(input[2], input[3]) :
               LET i == Decode16(word)
               IN i.opcode # "_invalid" => \A bit \in 0..15 : Decode16(Flipped(word, bit)) # i

(* The scattered bits of the immediate of a compressed instruction are put *)
(* together as the manual lays them out.                                   *)
CompressedLayout ==
    input[1] = "short" =>
        \A word \in Shorts(input[2], input[3]) :
            LET i == Decode16(word)
            IN i.opcode \notin {"_invalid", "nop", "illegal_instruction"} => i.imm = Manual(input[2], input[3], word)

(* What is fetched has the effect of the instructions that its size        *)
(* covers, so that none of them is lost; and so would joined instructions, *)
(* were they asked for.                                                    *)
JoinsKeepEffect ==
    input[1] = "pair" =>
        \A m \in Machines :
            /\ \A multi \in BOOLEAN : SameAs(Fetch(multi, Append(input[2], Fault)), input[2], m)
            /\ JoinDeviates(input[2], m) \/ SameAs(Asked(input[2]), input[2], m)

(* rv64-pseudo.h says that instructions are combined to a new one: auipc   *)
(* and an access through its register are fetched as one.                  *)
Combines ==
    input[1] = "pair" /\ Asked(input[2]).size > 4 => Fetch(TRUE, Append(input[2], Fault)).size > 4

(* fMakeMul says that it computes the upper half of the product.           *)
MulHighExact ==
    input[1] = "instruction" /\ input[2] \in HighProducts =>
        LET i == Instruction(input[2], input[3], 0, 0)
        IN \A m \in Machines : Outcome(Code(i, PC, NEXT), m) = Seen(Isa(i, PC, NEXT, m))
=============================================================================
