------------------------------ MODULE Decoder ------------------------------
(***************************************************************************)
(* The decoder of RISC-V instructions (rv64::Decode32 and rv64::Decode16). *)
(*                                                                         *)
(* An instruction is a pair <<low, high>> of its two halves of 16 bits, as *)
(* Cpu::fFetchRaw reads them; a compressed one has the high half 0.  The   *)
(* numbers of the opcodes are the names of the enumeration rv64::Opcode.   *)
(***************************************************************************)
EXTENDS Integers, Sequences, FiniteSets

(* GetU<first, last> and GetS<first, last>.                                *)
GetU(data, first, last) ==
    LET size == 2 ^ (last - first + 1)
    IN IF last < 16 THEN (data[1] \div 2 ^ first) % size
       ELSE IF first >= 16 THEN (data[2] \div 2 ^ (first - 16)) % size
       ELSE (data[1] \div 2 ^ first) + (data[2] % 2 ^ (last - 15)) * 2 ^ (16 - first)
GetS(data, first, last) ==
    LET u == GetU(data, first, last)
    IN IF u >= 2 ^ (last - first) THEN u - 2 ^ (last - first + 1) ELSE u

Invalid(size) ==
    [opcode |-> "_invalid", dest |-> 0, src1 |-> 0, src2 |-> 0, src3 |-> 0, misc |-> 0, imm |-> 0,
     temp |-> 0, size |-> size]

(* The name at an index counted from zero; "" and what lies beyond the     *)
(* names is no instruction.                                                *)
Named(names, index) ==
    IF index < Len(names) /\ names[index + 1] # "" THEN names[index + 1] ELSE "_invalid"
When(condition, name) == IF condition THEN name ELSE "_invalid"

Rd(data) == GetU(data, 7, 11)
Rs1(data) == GetU(data, 15, 19)
Rs2(data) == GetU(data, 20, 24)
Funct3(data) == GetU(data, 12, 14)
Funct7(data) == GetU(data, 25, 31)

FormatI(data) == [Invalid(4) EXCEPT !.dest = Rd(data), !.src1 = Rs1(data), !.imm = GetS(data, 20, 31)]
FormatS(data) ==
    [Invalid(4) EXCEPT !.src1 = Rs1(data), !.src2 = Rs2(data), !.imm = GetS(data, 25, 31) * 32 + GetU(data, 7, 11)]
FormatR(data) == [Invalid(4) EXCEPT !.dest = Rd(data), !.src1 = Rs1(data), !.src2 = Rs2(data)]
FormatU(data, name) ==
    [Invalid(4) EXCEPT !.opcode = name, !.dest = Rd(data), !.imm = GetS(data, 12, 31) * 4096]

Opcode03(data) == [FormatI(data) EXCEPT !.opcode =
    Named(<<"load_byte_s", "load_half_s", "load_word_s", "load_dword", "load_byte_u", "load_half_u", "load_word_u">>,
          Funct3(data))]
Opcode07(data) == [FormatI(data) EXCEPT !.opcode = Named(<<"", "", "load_float", "load_double">>, Funct3(data))]

Opcode0f(data) ==
    IF GetU(data, 7, 31) = 32 THEN [Invalid(4) EXCEPT !.opcode = "fence_inst"]
    ELSE IF GetU(data, 7, 19) = 0 /\ GetU(data, 28, 31) = 0
    THEN [Invalid(4) EXCEPT !.opcode = "fence", !.misc = GetU(data, 20, 27)]
    ELSE Invalid(4)

(* Whether the shift of srai and srai of words has its bits above it right. *)
(* MUTANT: only the one bit is looked at.                                  *)
ArithmeticOneBit(data, size) == Funct3(data) = 5 /\ GetU(data, 30, 30) = 1
ArithmeticShift(data, size) ==
    Funct3(data) = 5 /\ IF size = 6 THEN GetU(data, 26, 31) = 16 ELSE GetU(data, 25, 31) = 32

Opcode13(data) ==
    LET i == FormatI(data)
        upper == GetU(data, 26, 31)
        arith == ArithmeticShift(data, 6)
        nop == i.imm = 0 /\ i.src1 = 0 /\ i.dest = 0
    IN [i EXCEPT
        !.opcode = Named(<<IF nop THEN "nop" ELSE "add_imm",
                           IF upper = 0 THEN "shift_left_logic_imm" ELSE "",
                           "set_less_than_s_imm", "set_less_than_u_imm", "xor_imm",
                           IF upper = 0 THEN "shift_right_logic_imm" ELSE IF arith THEN "shift_right_arith_imm" ELSE "",
                           "or_imm", "and_imm">>, Funct3(data)),
        !.imm = IF arith THEN @ % 64 ELSE @]

Opcode1b(data) ==
    LET i == FormatI(data)
        arith == ArithmeticShift(data, 5)
        logic == Funct7(data) = 0
    IN [i EXCEPT
        !.opcode = Named(<<"add_imm_half", IF logic THEN "shift_left_logic_imm_half" ELSE "", "", "", "",
                           IF logic THEN "shift_right_logic_imm_half"
                           ELSE IF arith THEN "shift_right_arith_imm_half" ELSE "">>, Funct3(data)),
        !.imm = IF arith THEN @ % 32 ELSE @]

Opcode17(data) == FormatU(data, "add_upper_imm_pc")
Opcode37(data) == FormatU(data, "load_upper_imm")

Opcode23(data) == [FormatS(data) EXCEPT !.opcode =
    Named(<<"store_byte", "store_half", "store_word", "store_dword">>, Funct3(data))]
Opcode27(data) == [FormatS(data) EXCEPT !.opcode = Named(<<"", "", "store_float", "store_double">>, Funct3(data))]

(* The names of an instruction for a word and for a double word.           *)
Atomics == [key \in {0, 1, 2, 3, 4, 8, 12, 16, 20, 24, 28} |->
    CASE key = 0 -> <<"amo_add_w", "amo_add_d">> [] key = 1 -> <<"amo_swap_w", "amo_swap_d">>
      [] key = 2 -> <<"load_reserved_w", "load_reserved_d">>
      [] key = 3 -> <<"store_conditional_w", "store_conditional_d">>
      [] key = 4 -> <<"amo_xor_w", "amo_xor_d">> [] key = 8 -> <<"amo_or_w", "amo_or_d">>
      [] key = 12 -> <<"amo_and_w", "amo_and_d">> [] key = 16 -> <<"amo_min_s_w", "amo_min_s_d">>
      [] key = 20 -> <<"amo_max_s_w", "amo_max_s_d">> [] key = 24 -> <<"amo_min_u_w", "amo_min_u_d">>
      [] key = 28 -> <<"amo_max_u_w", "amo_max_u_d">>]
Opcode2f(data) ==
    LET i == [FormatR(data) EXCEPT !.misc = GetU(data, 25, 26)]
        key == GetU(data, 27, 31)
    IN IF Funct3(data) \in {2, 3} /\ key \in DOMAIN Atomics /\ (key = 2 => i.src2 = 0)
       THEN [i EXCEPT !.opcode = Atomics[key][Funct3(data) - 1]]
       ELSE i

Opcode33(data) == [FormatR(data) EXCEPT !.opcode =
    LET funct7 == Funct7(data)
    IN IF funct7 = 0
       THEN Named(<<"add_reg", "shift_left_logic_reg", "set_less_than_s_reg", "set_less_than_u_reg", "xor_reg",
                    "shift_right_logic_reg", "or_reg", "and_reg">>, Funct3(data))
       ELSE IF funct7 = 1
       THEN Named(<<"mul_reg", "mul_high_s_reg", "mul_high_s_u_reg", "mul_high_u_reg", "div_s_reg", "div_u_reg",
                    "rem_s_reg", "rem_u_reg">>, Funct3(data))
       ELSE IF funct7 = 32 THEN Named(<<"sub_reg", "", "", "", "", "shift_right_arith_reg">>, Funct3(data))
       ELSE "_invalid"]
Opcode3b(data) == [FormatR(data) EXCEPT !.opcode =
    LET funct7 == Funct7(data)
    IN IF funct7 = 0
       THEN Named(<<"add_reg_half", "shift_left_logic_reg_half", "", "", "", "shift_right_logic_reg_half">>, Funct3(data))
       ELSE IF funct7 = 1
       THEN Named(<<"mul_reg_half", "", "", "", "div_s_reg_half", "div_u_reg_half", "rem_s_reg_half",
                    "rem_u_reg_half">>, Funct3(data))
       ELSE IF funct7 = 32
       THEN Named(<<"sub_reg_half", "", "", "", "", "shift_right_arith_reg_half">>, Funct3(data))
       ELSE "_invalid"]

FormatR4(data, names) ==
    [FormatR(data) EXCEPT !.src3 = GetU(data, 27, 31), !.misc = Funct3(data), !.opcode = Named(names, GetU(data, 25, 26))]
Opcode43(data) == FormatR4(data, <<"float_mul_add", "double_mul_add">>)
Opcode47(data) == FormatR4(data, <<"float_mul_sub", "double_mul_sub">>)
Opcode4b(data) == FormatR4(data, <<"float_neg_mul_sub", "double_neg_mul_sub">>)
Opcode4f(data) == FormatR4(data, <<"float_neg_mul_add", "double_neg_mul_add">>)

(* The lowest bit of funct7 tells float from double.  "plain" ones have a  *)
(* rounding mode and two sources; "mode" ones are told apart by the        *)
(* rounding mode; "source" ones by the second source.                      *)
Opcode53(data) ==
    LET i == [FormatR(data) EXCEPT !.misc = Funct3(data)]
        double == Funct7(data) % 2
        kind == Funct7(data) \div 2
        Pair(float, other) == IF double = 0 THEN float ELSE other
        Plain(name) == [i EXCEPT !.opcode = name]
        Mode(names) == [i EXCEPT !.opcode = Named(names, i.misc), !.misc = 0]
        Source(names) == [i EXCEPT !.opcode = Named(names, i.src2), !.src2 = 0]
        Alone(names) == [i EXCEPT !.opcode = IF i.src2 = 0 THEN Named(names, i.misc) ELSE "_invalid", !.misc = 0]
    IN CASE kind = 0 -> Plain(Pair("float_add", "double_add"))
         [] kind = 2 -> Plain(Pair("float_sub", "double_sub"))
         [] kind = 4 -> Plain(Pair("float_mul", "double_mul"))
         [] kind = 6 -> Plain(Pair("float_div", "double_div"))
         [] kind = 22 -> Plain(When(i.src2 = 0, Pair("float_sqrt", "double_sqrt")))
         [] kind = 8 -> Mode(Pair(<<"float_sign_copy", "float_sign_invert", "float_sign_xor">>,
                                  <<"double_sign_copy", "double_sign_invert", "double_sign_xor">>))
         [] kind = 10 -> Mode(Pair(<<"float_min", "float_max">>, <<"double_min", "double_max">>))
         [] kind = 16 -> Source(Pair(<<"", "double_to_float">>, <<"float_to_double">>))
         [] kind = 40 -> Mode(Pair(<<"float_less_equal", "float_less_than", "float_equal">>,
                                   <<"double_less_equal", "double_less_than", "double_equal">>))
         [] kind = 48 -> Source(Pair(<<"float_convert_to_word_s", "float_convert_to_word_u",
                                       "float_convert_to_dword_s", "float_convert_to_dword_u">>,
                                     <<"double_convert_to_word_s", "double_convert_to_word_u",
                                       "double_convert_to_dword_s", "double_convert_to_dword_u">>))
         [] kind = 52 -> Source(Pair(<<"float_convert_from_word_s", "float_convert_from_word_u",
                                       "float_convert_from_dword_s", "float_convert_from_dword_u">>,
                                     <<"double_convert_from_word_s", "double_convert_from_word_u",
                                       "double_convert_from_dword_s", "double_convert_from_dword_u">>))
         [] kind = 56 -> Alone(Pair(<<"float_move_to_word", "float_classify">>,
                                    <<"double_move_to_dword", "double_classify">>))
         [] kind = 60 -> Alone(Pair(<<"float_move_from_word">>, <<"double_move_from_dword">>))
         [] OTHER -> i

(* The two cases below are asked for by Decode32, although no instruction  *)
(* that is not compressed has these opcodes.                               *)
Opcode60(data) ==
    [FormatI(data) EXCEPT !.imm = 0, !.misc = Funct3(data),
        !.opcode = Named(<<"", "", "float_convert_from_dword_s", "float_convert_from_dword_u">>, Rs2(data))]
Opcode68(data) ==
    [FormatI(data) EXCEPT !.imm = 0, !.misc = Funct3(data),
        !.opcode = Named(<<"", "", "float_convert_to_dword_s", "float_convert_to_dword_u">>, Rs2(data))]

Opcode63(data) ==
    [Invalid(4) EXCEPT !.src1 = Rs1(data), !.src2 = Rs2(data),
        !.imm = GetS(data, 31, 31) * 4096 + GetU(data, 7, 7) * 2048 + GetU(data, 25, 30) * 32 + GetU(data, 8, 11) * 2,
        !.opcode = Named(<<"branch_eq", "branch_ne", "", "", "branch_lt_s", "branch_ge_s", "branch_lt_u",
                           "branch_ge_u">>, Funct3(data))]
Opcode67(data) == [FormatI(data) EXCEPT !.opcode = When(Funct3(data) = 0, "jump_and_link_reg")]
Opcode6f(data) ==
    [Invalid(4) EXCEPT !.dest = Rd(data), !.opcode = "jump_and_link_imm",
        !.imm = GetS(data, 31, 31) * 1048576 + GetU(data, 12, 19) * 4096 + GetU(data, 20, 20) * 2048
              + GetU(data, 21, 30) * 2]
Opcode73(data) ==
    LET misc == GetU(data, 20, 31)
        plain == Rs1(data) = 0 /\ Rd(data) = 0
    IN [FormatI(data) EXCEPT !.imm = Rs1(data), !.misc = misc,
        !.opcode = Named(<<IF plain /\ misc = 0 THEN "ecall" ELSE IF plain /\ misc = 1 THEN "ebreak" ELSE "",
                           "csr_read_write", "csr_read_and_set", "csr_read_and_clear", "",
                           "csr_read_write_imm", "csr_read_and_set_imm", "csr_read_and_clear_imm">>, Funct3(data))]

Decode32(data) ==
    LET code == GetU(data, 0, 6)
    IN CASE code = 3 -> Opcode03(data) [] code = 7 -> Opcode07(data) [] code = 15 -> Opcode0f(data)
         [] code = 19 -> Opcode13(data) [] code = 23 -> Opcode17(data) [] code = 27 -> Opcode1b(data)
         [] code = 35 -> Opcode23(data) [] code = 39 -> Opcode27(data) [] code = 47 -> Opcode2f(data)
         [] code = 51 -> Opcode33(data) [] code = 55 -> Opcode37(data) [] code = 59 -> Opcode3b(data)
         [] code = 67 -> Opcode43(data) [] code = 71 -> Opcode47(data) [] code = 75 -> Opcode4b(data)
         [] code = 79 -> Opcode4f(data) [] code = 83 -> Opcode53(data) [] code = 96 -> Opcode60(data)
         [] code = 99 -> Opcode63(data) [] code = 103 -> Opcode67(data) [] code = 104 -> Opcode68(data)
         [] code = 111 -> Opcode6f(data) [] code = 115 -> Opcode73(data) [] OTHER -> Invalid(0)

-----------------------------------------------------------------------------
(* Compressed instructions.                                                *)

RVCRegister(data, first) == 8 + GetU(data, first, first + 2)
At(data, first, last, shift) == GetU(data, first, last) * 2 ^ shift
Sign(data, shift) == GetS(data, 12, 12) * 2 ^ shift

Quadrant0(data) ==
    LET word == At(data, 5, 5, 6) + At(data, 10, 12, 3) + At(data, 6, 6, 2)
        dword == At(data, 5, 6, 6) + At(data, 10, 12, 3)
        Load(name, imm) == [Invalid(2) EXCEPT !.opcode = name, !.imm = imm,
                               !.src1 = RVCRegister(data, 7), !.dest = RVCRegister(data, 2)]
        Store(name, imm) == [Invalid(2) EXCEPT !.opcode = name, !.imm = imm,
                                !.src1 = RVCRegister(data, 7), !.src2 = RVCRegister(data, 2)]
        addi4spn == [Invalid(2) EXCEPT !.opcode = "add_imm", !.src1 = 2, !.dest = RVCRegister(data, 2),
                        !.imm = At(data, 7, 10, 6) + At(data, 11, 12, 4) + At(data, 5, 5, 3) + At(data, 6, 6, 2)]
        code == GetU(data, 13, 15)
    IN CASE code = 0 -> IF data[1] # 0 THEN addi4spn ELSE [Invalid(2) EXCEPT !.opcode = "illegal_instruction"]
         [] code = 1 -> Load("load_double", dword)
         [] code = 2 -> Load("load_word_s", word)
         [] code = 3 -> Load("load_dword", dword)
         [] code = 4 -> Invalid(2)
         [] code = 5 -> Store("store_double", dword)
         [] code = 6 -> Store("store_word", word)
         [] code = 7 -> Store("store_dword", dword)

(* c.srli to c.and, of the fifth code of the second quadrant.              *)
Arithmetic(data) ==
    LET i == [Invalid(2) EXCEPT !.src1 = RVCRegister(data, 7), !.dest = RVCRegister(data, 7)]
        shift == At(data, 12, 12, 5) + At(data, 2, 6, 0)
        kind == GetU(data, 10, 11)
        Immediate(name, imm) == [i EXCEPT !.opcode = name, !.imm = imm]
    IN CASE kind = 0 -> Immediate(When(shift # 0, "shift_right_logic_imm"), shift)
         [] kind = 1 -> Immediate(When(shift # 0, "shift_right_arith_imm"), shift)
         [] kind = 2 -> Immediate("and_imm", Sign(data, 5) + At(data, 2, 6, 0))
         [] kind = 3 -> [i EXCEPT !.src2 = RVCRegister(data, 2),
                !.opcode = Named(IF GetU(data, 12, 12) = 0 THEN <<"sub_reg", "xor_reg", "or_reg", "and_reg">>
                                 ELSE <<"sub_reg_half", "add_reg_half">>, GetU(data, 5, 6))]

(* MUTANT: two bits of the distance of c.j are swapped.                    *)
JumpSwapped(data) ==
    Sign(data, 11) + At(data, 8, 8, 10) + At(data, 9, 10, 8) + At(data, 7, 7, 7) + At(data, 6, 6, 6)
        + At(data, 2, 2, 5) + At(data, 11, 11, 4) + At(data, 3, 5, 1)

JumpImmediate(data) ==
    Sign(data, 11) + At(data, 8, 8, 10) + At(data, 9, 10, 8) + At(data, 6, 6, 7) + At(data, 7, 7, 6)
        + At(data, 2, 2, 5) + At(data, 11, 11, 4) + At(data, 3, 5, 1)

Quadrant1(data) ==
    LET code == GetU(data, 13, 15)
        rd == Rd(data)
        imm == Sign(data, 5) + At(data, 2, 6, 0)
        same == [Invalid(2) EXCEPT !.src1 = rd, !.dest = rd, !.imm = imm]
        addi16sp == Sign(data, 9) + At(data, 3, 4, 7) + At(data, 5, 5, 6) + At(data, 2, 2, 5) + At(data, 6, 6, 4)
        branch == [Invalid(2) EXCEPT !.src1 = RVCRegister(data, 7),
                      !.imm = Sign(data, 8) + At(data, 5, 6, 6) + At(data, 2, 2, 5) + At(data, 10, 11, 3)
                            + At(data, 3, 4, 1)]
    IN CASE code = 0 -> [same EXCEPT !.opcode = IF rd = 0 /\ imm = 0 THEN "nop" ELSE When(rd # 0 /\ imm # 0, "add_imm")]
         [] code = 1 -> [same EXCEPT !.opcode = When(rd # 0, "add_imm_half")]
         [] code = 2 -> [same EXCEPT !.src1 = 0, !.opcode = When(rd # 0, "add_imm")]
         [] code = 3 /\ rd = 2 -> [same EXCEPT !.imm = addi16sp, !.opcode = When(addi16sp # 0, "add_imm")]
         [] code = 3 /\ rd # 2 -> [same EXCEPT !.src1 = 0, !.imm = IF rd = 0 THEN 0 ELSE imm * 4096,
                                               !.opcode = When(rd # 0, "load_upper_imm")]
         [] code = 4 -> Arithmetic(data)
         [] code = 5 -> [Invalid(2) EXCEPT !.opcode = "jump_and_link_imm", !.imm = JumpImmediate(data)]
         [] code = 6 -> [branch EXCEPT !.opcode = "branch_eq"]
         [] code = 7 -> [branch EXCEPT !.opcode = "branch_ne"]

(* c.jr to c.add, of the fifth code of the third quadrant.                 *)
Registers(data) ==
    LET rs1 == Rd(data)
        rs2 == GetU(data, 2, 6)
        i == [Invalid(2) EXCEPT !.src1 = rs1, !.src2 = rs2]
        linked == GetU(data, 12, 12)
    IN CASE rs1 # 0 /\ rs2 = 0 -> [i EXCEPT !.opcode = "jump_and_link_reg", !.dest = linked]
         [] rs1 # 0 /\ rs2 # 0 /\ linked = 0 -> [i EXCEPT !.opcode = "add_imm", !.dest = rs1, !.src1 = rs2]
         [] rs1 # 0 /\ rs2 # 0 /\ linked = 1 -> [i EXCEPT !.opcode = "add_reg", !.dest = rs1]
         [] rs1 = 0 -> [i EXCEPT !.opcode = When(linked = 1 /\ rs2 = 0, "ebreak")]

Quadrant2(data) ==
    LET code == GetU(data, 13, 15)
        rd == Rd(data)
        shift == At(data, 12, 12, 5) + At(data, 2, 6, 0)
        word == At(data, 2, 3, 6) + At(data, 12, 12, 5) + At(data, 4, 6, 2)
        dword == At(data, 2, 4, 6) + At(data, 12, 12, 5) + At(data, 5, 6, 3)
        toWord == At(data, 7, 8, 6) + At(data, 9, 12, 2)
        toDword == At(data, 7, 9, 6) + At(data, 10, 12, 3)
        Load(name, imm) == [Invalid(2) EXCEPT !.opcode = name, !.src1 = 2, !.dest = rd, !.imm = imm]
        Store(name, imm) == [Invalid(2) EXCEPT !.opcode = name, !.src1 = 2, !.src2 = GetU(data, 2, 6), !.imm = imm]
    IN CASE code = 0 -> [Invalid(2) EXCEPT !.opcode = When(rd # 0 /\ shift # 0, "shift_left_logic_imm"),
                                           !.src1 = rd, !.dest = rd, !.imm = shift]
         [] code = 1 -> Load("load_double", dword)
         [] code = 2 -> Load(When(rd # 0, "load_word_s"), word)
         [] code = 3 -> Load(When(rd # 0, "load_dword"), dword)
         [] code = 4 -> Registers(data)
         [] code = 5 -> Store("store_double", toDword)
         [] code = 6 -> Store("store_word", toWord)
         [] code = 7 -> Store("store_dword", toDword)

Decode16(data) ==
    CASE GetU(data, 0, 1) = 0 -> Quadrant0(data) [] GetU(data, 0, 1) = 1 -> Quadrant1(data)
      [] GetU(data, 0, 1) = 2 -> Quadrant2(data) [] GetU(data, 0, 1) = 3 -> Invalid(0)

=============================================================================
