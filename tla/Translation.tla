---------------------------- MODULE Translation ----------------------------
(***************************************************************************)
(* The code that is emitted for an instruction (rv64::Translate).  An      *)
(* operator of this module gives the sequence of instructions that the     *)
(* method of its name emits, in the order they are emitted.                *)
(*                                                                         *)
(* fulfill = set(...) puts the place on the stack, and fulfill.now() emits *)
(* the store; for the register x0 there is no fulfill, and neither is      *)
(* emitted.  An instruction i stands at pc, the next one at next.          *)
(***************************************************************************)
EXTENDS Pseudo, Wasm

T(half) == IF half THEN "i32" ELSE "i64"
F(half) == IF half THEN "f32" ELSE "f64"
Const(type, value) == <<"const", type, value>>
Tee(type, index) == <<"tee", type, index>>
Keep(type, index) == <<"keep", type, index>>
Local(type, index) == <<"local", type, index>>
Op(type, name) == <<"two", type, name>>
One(name) == <<"one", name>>
If(then, else) == <<"if", then, else>>
Raise(id, pc) == <<"raise", id, pc>>

(* fLoadSrc1 and fLoadSrc2, without and with forceNull.                    *)
Load(reg, half) == IF reg = 0 THEN <<>> ELSE << <<"load", T(half), <<"regs", reg>> >> >>
LoadOrNull(reg, half) == IF reg = 0 THEN <<Const(T(half), 0)>> ELSE Load(reg, half)
LoadF(reg, half) == << <<"load", F(half), <<"fregs", reg>> >> >>

(* The two halves of fulfill, for fStoreReg, fStoreFDest and the csr.      *)
Set(reg) == IF reg = 0 THEN <<>> ELSE << <<"place", <<"regs", reg>> >> >>
Now(reg) == IF reg = 0 THEN <<>> ELSE << <<"store", "i64">> >>
SetF(reg) == << <<"place", <<"fregs", reg>> >> >>
NowF(asInt) == << <<"store", IF asInt THEN "i64" ELSE "f64">> >>
StoreReg(reg, code) == Set(reg) \o code \o Now(reg)

(* fExpandFloat, leaving the value as an integer.                          *)
ExpandFloat(isAsInt) ==
    (IF isAsInt THEN <<>> ELSE <<One("f32_bits")>>) \o <<One("expand_u"), Const("i64", 240), Op("i64", "or")>>

(* fMakeImms.                                                              *)
MakeImms(i, pc) ==
    IF i.dest = 0 THEN <<>>
    ELSE StoreReg(i.dest, <<Const("i64", IF i.opcode \in {"add_upper_imm_pc", "multi_load_address"} THEN pc + i.imm ELSE i.imm)>>)

(* Instruction::isCall, isRet and isMisaligned.                            *)
IsCall(i) ==
    \/ i.opcode = "multi_call"
    \/ i.opcode = "jump_and_link_imm" /\ i.dest \in {1, 5}
    \/ i.opcode = "jump_and_link_reg" /\ i.dest \in {1, 5} /\ (i.src1 \in {1, 5} => i.src1 = i.dest)
IsRet(i) == i.opcode = "jump_and_link_reg" /\ i.dest \notin {1, 5} /\ i.src1 \in {1, 5}
Branches == [branch_eq |-> "eq", branch_ne |-> "ne", branch_lt_s |-> "lt_s", branch_ge_s |-> "ge_s",
             branch_lt_u |-> "lt_u", branch_ge_u |-> "ge_u"]
IsMisaligned(i, pc) ==
    i.opcode \in DOMAIN Branches \cup {"jump_and_link_imm"} /\ (pc + i.imm) % 2 # 0

(* fMakeJALI, fMakeJALR and fMakeBranch.                                   *)
MakeJALI(i, pc, next) ==
    LET linked == IF i.opcode = "multi_call" THEN 1 ELSE IF i.opcode = "jump_and_link_imm" THEN i.dest ELSE 0
    IN (IF linked = 0 THEN <<>> ELSE StoreReg(linked, <<Const("i64", next)>>))
       \o IF IsMisaligned(i, pc) THEN <<Raise("misaligned", pc)>>
          ELSE << <<"jump", IF IsCall(i) THEN "call" ELSE "jump", pc + i.imm, next>> >>

(* MUTANT: the link register is written before the target is read.         *)
MakeJALRLinkFirst(i, pc, next) ==
    (IF i.dest = 0 THEN <<>> ELSE StoreReg(i.dest, <<Const("i64", next)>>))
    \o LoadOrNull(i.src1, FALSE) \o <<Const("i64", i.imm), Op("i64", "add"), Tee("i64", 0), One("shrink"),
         Const("i32", 1), Op("i32", "and"), If(<<Raise("misaligned", pc)>>, <<>>), Local("i64", 0),
         <<"goto", IF IsRet(i) THEN "ret" ELSE IF IsCall(i) THEN "call" ELSE "jump", next>> >>

MakeJALR(i, pc, next) ==
    (IF i.src1 = 0 THEN <<Const("i64", i.imm)>>
     ELSE Load(i.src1, FALSE) \o IF i.imm = 0 THEN <<>> ELSE <<Const("i64", i.imm), Op("i64", "add")>>)
    \o (IF i.dest = 0 THEN <<>> ELSE StoreReg(i.dest, <<Const("i64", next)>>))
    \o <<Tee("i64", 0), One("shrink"), Const("i32", 1), Op("i32", "and"),
         If(<<Raise("misaligned", pc)>>, <<>>), Local("i64", 0),
         <<"goto", IF IsRet(i) THEN "ret" ELSE IF IsCall(i) THEN "call" ELSE "jump", next>> >>

MakeBranch(i, pc, next) ==
    LET taken == << <<"jump", "jump", pc + i.imm, next>> >>
        condition ==
            IF i.opcode # "branch_eq"
            THEN LoadOrNull(i.src1, FALSE) \o LoadOrNull(i.src2, FALSE) \o <<Op("i64", Branches[i.opcode])>>
            ELSE IF i.src1 = 0 THEN <<One("eqz64")>>
            ELSE Load(i.src1, FALSE) \o Load(i.src2, FALSE) \o <<IF i.src2 = 0 THEN One("eqz64") ELSE Op("i64", "eq")>>
    IN IF IsMisaligned(i, pc) THEN <<Raise("misaligned", pc)>>
       ELSE IF i.src1 = i.src2
       THEN IF i.opcode \in {"branch_eq", "branch_ge_s", "branch_ge_u"} THEN taken ELSE <<>>
       ELSE condition \o <<If(taken, <<>>)>>

(* fMakeALUImm: the operation of each name, and whether it works on words. *)
AluImm == [add_imm |-> <<"add", FALSE>>, add_imm_half |-> <<"add", TRUE>>,
    xor_imm |-> <<"xor", FALSE>>, or_imm |-> <<"or", FALSE>>, and_imm |-> <<"and", FALSE>>,
    shift_left_logic_imm |-> <<"shl", FALSE>>, shift_left_logic_imm_half |-> <<"shl", TRUE>>,
    shift_right_logic_imm |-> <<"shr_u", FALSE>>, shift_right_logic_imm_half |-> <<"shr_u", TRUE>>,
    shift_right_arith_imm |-> <<"shr_s", FALSE>>, shift_right_arith_imm_half |-> <<"shr_s", TRUE>>,
    set_less_than_s_imm |-> <<"lt_s", FALSE>>, set_less_than_u_imm |-> <<"lt_u", FALSE>>]
ExpandWord(half) == IF half THEN <<One("expand_s")>> ELSE <<>>
MakeALUImm(i) ==
    LET op == AluImm[i.opcode][1]
        half == AluImm[i.opcode][2]
        imm == <<Const(T(half), i.imm)>>
        code ==
            CASE op = "add" /\ i.imm = 0 -> LoadOrNull(i.src1, half)
              [] op \in {"add", "xor", "or"} /\ (op = "add" => i.imm # 0) ->
                     imm \o Load(i.src1, half) \o IF i.src1 = 0 THEN <<>> ELSE <<Op(T(half), op)>>
              [] op \in {"and", "shl", "shr_u", "shr_s"} ->
                     LoadOrNull(i.src1, half) \o IF i.src1 = 0 THEN <<>> ELSE imm \o <<Op(T(half), op)>>
              [] op \in {"lt_s", "lt_u"} ->
                     IF i.src1 = 0 THEN <<Const("i64", Truth(IF op = "lt_s" THEN i.imm > 0 ELSE i.imm # 0))>>
                     ELSE Load(i.src1, FALSE) \o imm \o <<Op("i64", op), One("expand_u")>>
    IN IF i.dest = 0 THEN <<>> ELSE StoreReg(i.dest, code \o ExpandWord(half))

(* fMakeALUReg.                                                            *)
AluReg == [add_reg |-> <<"add", FALSE>>, add_reg_half |-> <<"add", TRUE>>, sub_reg |-> <<"sub", FALSE>>,
    sub_reg_half |-> <<"sub", TRUE>>, xor_reg |-> <<"xor", FALSE>>, or_reg |-> <<"or", FALSE>>,
    and_reg |-> <<"and", FALSE>>, mul_reg |-> <<"mul", FALSE>>, mul_reg_half |-> <<"mul", TRUE>>,
    shift_left_logic_reg |-> <<"shl", FALSE>>, shift_left_logic_reg_half |-> <<"shl", TRUE>>,
    shift_right_logic_reg |-> <<"shr_u", FALSE>>, shift_right_logic_reg_half |-> <<"shr_u", TRUE>>,
    shift_right_arith_reg |-> <<"shr_s", FALSE>>, shift_right_arith_reg_half |-> <<"shr_s", TRUE>>,
    set_less_than_s_reg |-> <<"lt_s", FALSE>>, set_less_than_u_reg |-> <<"lt_u", FALSE>>]
MakeALUReg(i) ==
    LET op == AluReg[i.opcode][1]
        half == AluReg[i.opcode][2]
        some == i.src1 = 0 \/ i.src2 = 0
        null == (i.src1 = 0 /\ i.src2 = 0) \/ (some /\ op \in {"and", "mul"})
        code ==
            CASE op \in {"add", "xor", "or", "and", "mul"} ->
                     Load(i.src1, half) \o Load(i.src2, half) \o IF some THEN <<>> ELSE <<Op(T(half), op)>>
              [] op = "sub" ->
                     LoadOrNull(i.src1, half) \o Load(i.src2, half) \o IF i.src2 = 0 THEN <<>> ELSE <<Op(T(half), op)>>
              [] op \in {"shl", "shr_u", "shr_s"} ->
                     LoadOrNull(i.src1, half) \o IF some THEN <<>> ELSE Load(i.src2, half) \o <<Op(T(half), op)>>
              [] op \in {"lt_s", "lt_u"} ->
                     LoadOrNull(i.src1, FALSE) \o LoadOrNull(i.src2, FALSE) \o <<Op("i64", op), One("expand_u")>>
    IN IF i.dest = 0 THEN <<>>
       ELSE StoreReg(i.dest, IF null THEN <<Const("i64", 0)>> ELSE code \o ExpandWord(half))

(* fMakeLoad and fMakeStore: the address, the bytes, and if they are       *)
(* extended by the sign.                                                   *)
Loads == [load_byte_s |-> <<1, TRUE>>, load_half_s |-> <<2, TRUE>>, load_word_s |-> <<4, TRUE>>,
    load_byte_u |-> <<1, FALSE>>, load_half_u |-> <<2, FALSE>>, load_word_u |-> <<4, FALSE>>, load_dword |-> <<8, TRUE>>]
MultiLoads == [multi_load_byte_s |-> <<1, TRUE>>, multi_load_half_s |-> <<2, TRUE>>, multi_load_word_s |-> <<4, TRUE>>,
    multi_load_byte_u |-> <<1, FALSE>>, multi_load_half_u |-> <<2, FALSE>>, multi_load_word_u |-> <<4, FALSE>>,
    multi_load_dword |-> <<8, TRUE>>]
Stores == [store_byte |-> 1, store_half |-> 2, store_word |-> 4, store_dword |-> 8]
MultiStores == [multi_store_byte |-> 1, multi_store_half |-> 2, multi_store_word |-> 4, multi_store_dword |-> 8]

LoadAddress(i, multi, pc) ==
    IF multi THEN <<Const("i64", pc + i.imm)>>
    ELSE IF i.imm = 0 THEN LoadOrNull(i.src1, FALSE)
    ELSE <<Const("i64", i.imm)>> \o Load(i.src1, FALSE) \o IF i.src1 = 0 THEN <<>> ELSE <<Op("i64", "add")>>
StoreAddress(i, multi, pc) ==
    IF multi THEN <<Const("i64", pc + i.imm)>>
    ELSE <<Const("i64", i.imm)>> \o Load(i.src1, FALSE) \o IF i.src1 = 0 THEN <<>> ELSE <<Op("i64", "add")>>

MakeLoad(i, multi, pc) ==
    LET form == IF multi THEN MultiLoads[i.opcode] ELSE Loads[i.opcode]
    IN IF i.dest = 0 THEN <<>>
       ELSE StoreReg(i.dest, LoadAddress(i, multi, pc) \o << <<"read", "i64", form[1], form[2]>> >>)

(* The register of auipc is set after the value is on the stack.           *)
MakeStore(i, multi, pc, next) ==
    LET count == IF multi THEN MultiStores[i.opcode] ELSE Stores[i.opcode]
    IN StoreAddress(i, multi, pc) \o LoadOrNull(i.src2, count # 8)
       \o (IF multi THEN StoreReg(i.src1, <<Const("i64", pc + i.temp)>>) ELSE <<>>)
       \o << <<"write", T(count # 8), count, next>> >>

-----------------------------------------------------------------------------
(* fMakeDivRem.                                                            *)
DivRem == [div_s_reg |-> <<"div_s", FALSE>>, div_s_reg_half |-> <<"div_s", TRUE>>, div_u_reg |-> <<"div_u", FALSE>>,
    div_u_reg_half |-> <<"div_u", TRUE>>, rem_s_reg |-> <<"rem_s", FALSE>>, rem_s_reg_half |-> <<"rem_s", TRUE>>,
    rem_u_reg |-> <<"rem_u", FALSE>>, rem_u_reg_half |-> <<"rem_u", TRUE>>]
MakeDivRem(i) ==
    LET op == DivRem[i.opcode][1]
        half == DivRem[i.opcode][2]
        t == T(half)
        div == op \in {"div_s", "div_u"}
        overflow == If(<<Const("i64", IF div THEN -128 ELSE 0)>> \o Now(i.dest) \o << <<"leave">> >>,
                       <<Local(t, 0), Const(t, -1)>>)
        mayOverflow == <<Const(t, -1), Op(t, "eq"),
                         If(<<Tee(t, 0), Const(t, -(2 ^ (Width(t) - 1))), Op(t, "eq"), overflow>>, <<Local(t, 0)>>)>>
        result == (IF op \in {"div_s", "rem_s"} THEN mayOverflow ELSE <<>>)
                  \o <<Op(t, op)>> \o ExpandWord(half) \o Now(i.dest)
        zero == (IF div THEN << <<"drop", t>>, Const("i64", -1)>> ELSE ExpandWord(half)) \o Now(i.dest)
    IN IF i.dest = 0 THEN <<>>
       ELSE IF i.src2 = 0
       THEN Set(i.dest) \o IF div THEN <<Const("i64", -1)>> \o Now(i.dest)
                           ELSE IF i.src1 # i.dest THEN LoadOrNull(i.src1, FALSE) \o Now(i.dest) ELSE <<>>
       ELSE Set(i.dest) \o LoadOrNull(i.src1, half) \o LoadOrNull(i.src2, half)
            \o <<Tee(t, 0), One(IF half THEN "eqz32" ELSE "eqz64"),
                 If(zero, <<Local(t, 0), <<"block", result>> >>)>>

(* fMakeAMO, fMakeAMOLR and fMakeAMOSC.                                    *)
Amo == [amo_swap_w |-> <<"swap", TRUE>>, amo_swap_d |-> <<"swap", FALSE>>, amo_add_w |-> <<"add", TRUE>>,
    amo_add_d |-> <<"add", FALSE>>, amo_xor_w |-> <<"xor", TRUE>>, amo_xor_d |-> <<"xor", FALSE>>,
    amo_and_w |-> <<"and", TRUE>>, amo_and_d |-> <<"and", FALSE>>, amo_or_w |-> <<"or", TRUE>>,
    amo_or_d |-> <<"or", FALSE>>, amo_min_s_w |-> <<"lt_s", TRUE>>, amo_min_s_d |-> <<"lt_s", FALSE>>,
    amo_max_s_w |-> <<"gt_s", TRUE>>, amo_max_s_d |-> <<"gt_s", FALSE>>, amo_min_u_w |-> <<"lt_u", TRUE>>,
    amo_min_u_d |-> <<"lt_u", FALSE>>, amo_max_u_w |-> <<"gt_u", TRUE>>, amo_max_u_d |-> <<"gt_u", FALSE>>]
Aligned(half, pc) ==
    <<One("shrink"), Const("i32", IF half THEN 3 ELSE 7), Op("i32", "and"), If(<<Raise("misaligned", pc)>>, <<>>)>>
MakeAMO(i, pc, next) ==
    LET op == Amo[i.opcode][1]
        half == Amo[i.opcode][2]
        t == T(half)
        count == IF half THEN 4 ELSE 8
        value == Local(t, IF half THEN 0 ELSE 1)
        other == IF half THEN 1 ELSE 0
        chosen == <<Op(t, op), <<"select", t>> >>
        new == CASE op = "swap" -> LoadOrNull(i.src2, half)
                 [] op \in {"add", "xor", "or"} ->
                        <<value>> \o Load(i.src2, half) \o IF i.src2 = 0 THEN <<>> ELSE <<Op(t, op)>>
                 [] op = "and" -> LoadOrNull(i.src2, half) \o IF i.src2 = 0 THEN <<>> ELSE <<value, Op(t, op)>>
                 [] op \in {"lt_s", "gt_s"} ->
                        LoadOrNull(i.src2, half)
                        \o (IF i.src2 = 0 THEN <<value, Const(t, 0)>> ELSE <<Tee(t, other), value, Local(t, other)>>)
                        \o <<value>> \o chosen
                 [] op \in {"lt_u", "gt_u"} ->
                        IF i.src2 # 0
                        THEN Load(i.src2, half) \o <<Tee(t, other), value, Local(t, other), value>> \o chosen
                        ELSE IF op = "lt_u" THEN <<Const(t, 0)>> ELSE <<value>>
    IN LoadOrNull(i.src1, FALSE) \o <<Tee("i64", 0)>> \o Aligned(half, pc)
       \o <<Local("i64", 0), <<"read", t, count, FALSE>>, Keep(t, value[3]), Local("i64", 0)>>
       \o new \o << <<"write", t, count, next>> >>
       \o IF i.dest = 0 THEN <<>> ELSE StoreReg(i.dest, <<value>> \o ExpandWord(half))
MakeAMOLR(i, pc) ==
    LET half == i.opcode = "load_reserved_w"
    IN LoadOrNull(i.src1, FALSE) \o (IF i.dest # 0 THEN <<Tee("i64", 0)>> ELSE <<>>) \o Aligned(half, pc)
       \o IF i.dest = 0 THEN <<>>
          ELSE StoreReg(i.dest, <<Local("i64", 0), <<"read", "i64", IF half THEN 4 ELSE 8, TRUE>> >>)
MakeAMOSC(i, pc, next) ==
    LET half == i.opcode = "store_conditional_w"
    IN LoadOrNull(i.src1, FALSE) \o <<Tee("i64", 0)>> \o Aligned(half, pc)
       \o <<Local("i64", 0)>> \o LoadOrNull(i.src2, half) \o << <<"write", T(half), IF half THEN 4 ELSE 8, next>> >>
       \o IF i.dest = 0 THEN <<>> ELSE StoreReg(i.dest, <<Const("i64", 0)>>)

(* fMakeMul: the upper half of a product, put together from the products   *)
(* of the words a0, a1, b0 and b1 (the locals 0 to 3).                     *)
MakeMul(i) ==
    LET bSigned == i.opcode = "mul_high_s_reg"
        isSigned == bSigned \/ i.opcode = "mul_high_s_u_reg"
        mul == Op("i64", "mul")
        add == Op("i64", "add")
        Local64(index) == Local("i64", index)
        SignOf(code) == code \o <<Const("i64", 7), Op("i64", "shr_s")>>
        extended ==
            IF ~isSigned THEN <<>>
            ELSE SignOf(Load(i.src1, FALSE) \o <<Tee("i64", 1)>>) \o Load(i.src2, FALSE) \o <<Tee("i64", 3), mul>>
                 \o IF bSigned THEN SignOf(<<Local64(3)>>) \o <<Local64(1), mul, add>> ELSE <<>>
        Split(src, low, high) ==
            (IF isSigned THEN <<Local64(high)>> ELSE Load(src, FALSE) \o <<Tee("i64", high)>>)
            \o <<Const("i64", 15), Op("i64", "and"), Keep("i64", low),
                 Local64(high), Const("i64", 4), Op("i64", "shr_u"), Tee("i64", high)>>
        shift == <<Const("i64", 4), Op("i64", "shr_u")>>
        product ==
            Split(i.src1, 0, 1) \o Split(i.src2, 2, 3) \o <<mul>> \o (IF isSigned THEN <<add>> ELSE <<>>)
            \o <<Local64(0), Local64(2), mul>> \o shift
            \o <<Local64(0), Local64(3), mul, add, Local64(1), Local64(2), mul, add>> \o shift \o <<add>>
    IN IF i.dest = 0 THEN <<>>
       ELSE StoreReg(i.dest, IF i.src1 = 0 \/ i.src2 = 0 THEN <<Const("i64", 0)>> ELSE extended \o product)

(* fGetCsrPlacement and fMakeCSR.  The number of a csr is in misc.         *)
FloatCsrs == {1, 2, 3}
ReadOnlyCsrs == {3072, 3073, 3074}
CsrShift(csr) == IF csr = 2 THEN 5 ELSE 0
CsrMask(csr) == CASE csr = 1 -> 31 [] csr = 2 -> 7 [] csr = 3 -> 255
MakeCSR(i, pc) ==
    LET imm == i.opcode \in {"csr_read_write_imm", "csr_read_and_set_imm", "csr_read_and_clear_imm"}
        replace == i.opcode \in {"csr_read_write", "csr_read_write_imm"}
        clear == i.opcode \in {"csr_read_and_clear", "csr_read_and_clear_imm"}
        write == replace \/ (IF imm THEN i.imm ELSE i.src1) # 0
        read == i.dest # 0
        mask == CsrMask(i.misc)
        by == CsrShift(i.misc)
        csr == <<"csr", 0>>
        masked == <<Const("i64", mask), Op("i64", "and")>>
        shifted == IF by = 0 THEN <<>> ELSE <<Const("i64", by), Op("i64", "shl")>>
        placed == (i.imm & mask) * 2 ^ by
        toRegister ==
            (IF write THEN <<Tee("i64", 0)>> ELSE <<>>) \o (IF by = 0 THEN <<>> ELSE <<Const("i64", 5), Op("i64", "shr_u")>>)
            \o masked \o Now(i.dest) \o IF write THEN <<Local("i64", 0)>> ELSE <<>>
        cleaned == <<Const("i64", 255 - mask * 2 ^ by), Op("i64", "and")>>
        new == CASE ~imm /\ ~replace /\ ~clear -> Load(i.src1, FALSE) \o masked \o shifted \o <<Op("i64", "or")>>
                 [] ~imm /\ clear -> Load(i.src1, FALSE) \o masked \o shifted
                                     \o <<Const("i64", -1), Op("i64", "xor"), Op("i64", "and")>>
                 [] ~imm /\ replace -> cleaned \o IF i.src1 = 0 THEN <<>>
                                                  ELSE Load(i.src1, FALSE) \o masked \o shifted \o <<Op("i64", "or")>>
                 [] imm /\ ~replace /\ ~clear -> <<Const("i64", placed), Op("i64", "or")>>
                 [] imm /\ clear -> <<Const("i64", 255 - placed), Op("i64", "and")>>
                 [] imm /\ replace -> cleaned \o IF i.imm = 0 THEN <<>> ELSE <<Const("i64", placed), Op("i64", "or")>>
        temp == IF read /\ write THEN 1 ELSE 0
        checked == <<Tee("i64", temp), Local("i64", temp), Const("i64", 5), Op("i64", "shr_u"), Const("i64", 7),
                     Op("i64", "and"), Tee("i64", temp), Const("i64", 0), Op("i64", "ne"),
                     If(<<Local("i64", temp), <<"invoke", "warn">>, <<"drop", "i64">> >>, <<>>)>>
    IN IF i.misc \notin FloatCsrs \cup ReadOnlyCsrs THEN <<>>
       ELSE IF i.misc \in ReadOnlyCsrs THEN <<Raise(IF write THEN "illegal" ELSE "csr", pc)>>
       ELSE IF ~read /\ ~write THEN <<>>
       ELSE (IF write THEN << <<"place", csr>> >> ELSE <<>>) \o Set(i.dest) \o << <<"load", "i64", csr>> >>
            \o (IF read THEN toRegister ELSE <<>>)
            \o IF write THEN new \o checked \o << <<"store", "i64">> >> ELSE <<>>

-----------------------------------------------------------------------------
(* Floats.  A rounding mode that is not supported is only reported.        *)
Warn(i) == IF i.misc \in {0, 7} THEN <<>> ELSE <<Const("i64", -i.misc), <<"invoke", "warn">>, <<"drop", "i64">> >>

(* fMakeFLoad and fMakeFStore.                                             *)
MakeFLoad(i, multi, pc) ==
    SetF(i.dest) \o LoadAddress(i, multi, pc)
    \o (IF multi THEN StoreReg(i.src1, <<Const("i64", pc + i.temp)>>) ELSE <<>>)
    \o (IF i.opcode \in {"load_float", "multi_load_float"} THEN << <<"read", "i32", 4, FALSE>> >> \o ExpandFloat(TRUE)
        ELSE << <<"read", "i64", 8, FALSE>> >>)
    \o NowF(TRUE)
MakeFStore(i, multi, pc, next) ==
    LET half == i.opcode \in {"store_float", "multi_store_float"}
    IN StoreAddress(i, multi, pc)
       \o (IF multi THEN StoreReg(i.src1, <<Const("i64", pc + i.temp)>>) ELSE <<>>)
       \o LoadF(i.src2, half) \o << <<"write", F(half), IF half THEN 4 ELSE 8, next>> >>

(* fMakeFloatToInt and fMakeIntToFloat: the conversion, whether the        *)
(* integer is a word, and whether the float is one.                        *)
FloatToInt == [float_convert_to_word_s |-> <<"s", TRUE, TRUE>>, float_convert_to_word_u |-> <<"u", TRUE, TRUE>>,
    float_move_to_word |-> <<"move", TRUE, TRUE>>, float_convert_to_dword_s |-> <<"s", FALSE, TRUE>>,
    float_convert_to_dword_u |-> <<"u", FALSE, TRUE>>, double_convert_to_word_s |-> <<"s", TRUE, FALSE>>,
    double_convert_to_word_u |-> <<"u", TRUE, FALSE>>, double_convert_to_dword_s |-> <<"s", FALSE, FALSE>>,
    double_convert_to_dword_u |-> <<"u", FALSE, FALSE>>, double_move_to_dword |-> <<"move", FALSE, FALSE>>]
MakeFloatToInt(i) ==
    LET kind == FloatToInt[i.opcode][1]
        int == T(FloatToInt[i.opcode][2])
        float == F(FloatToInt[i.opcode][3])
        largest == IF kind = "s" THEN 2 ^ (Width(int) - 1) - 1 ELSE 2 ^ Width(int) - 1
        expand == ExpandWord(FloatToInt[i.opcode][2])
        code == IF kind = "move" THEN <<One(IF float = "f32" THEN "f32_bits" ELSE "f64_bits")>> \o expand
                ELSE <<Tee(float, 0), Local(float, 0), Op(float, "ne"),
                       If(<<Const("i64", largest)>>, <<Local(float, 0), <<"convert", float, int, kind>> >> \o expand)>>
    IN Warn(i) \o IF i.dest = 0 THEN <<>> ELSE StoreReg(i.dest, LoadF(i.src1, float = "f32") \o code)

IntToFloat == [float_convert_from_word_s |-> <<"s", TRUE, TRUE>>, float_convert_from_word_u |-> <<"u", TRUE, TRUE>>,
    float_move_from_word |-> <<"move", TRUE, TRUE>>, float_convert_from_dword_s |-> <<"s", FALSE, TRUE>>,
    float_convert_from_dword_u |-> <<"u", FALSE, TRUE>>, double_convert_from_word_s |-> <<"s", TRUE, FALSE>>,
    double_convert_from_word_u |-> <<"u", TRUE, FALSE>>, double_convert_from_dword_s |-> <<"s", FALSE, FALSE>>,
    double_convert_from_dword_u |-> <<"u", FALSE, FALSE>>, double_move_from_dword |-> <<"move", FALSE, FALSE>>]
StoreF(i, half, code) == SetF(i.dest) \o code \o (IF half THEN ExpandFloat(FALSE) ELSE <<>>) \o NowF(half)
MakeIntToFloat(i) ==
    LET kind == IntToFloat[i.opcode][1]
        word == IntToFloat[i.opcode][2]
        half == IntToFloat[i.opcode][3]
        code == IF kind = "move" THEN One(IF half THEN "bits_f32" ELSE "bits_f64")
                ELSE <<"convert", T(word), F(half), kind>>
    IN Warn(i) \o StoreF(i, half, LoadOrNull(i.src1, word) \o <<code>>)

(* fMakeFloatALUSimple, fMakeFloatALULarge and fMakeFloatConvert.          *)
Simple == [float_add |-> <<"add", TRUE>>, float_sub |-> <<"sub", TRUE>>, float_mul |-> <<"mul", TRUE>>,
    float_div |-> <<"div", TRUE>>, float_min |-> <<"min", TRUE>>, float_max |-> <<"max", TRUE>>,
    double_add |-> <<"add", FALSE>>, double_sub |-> <<"sub", FALSE>>, double_mul |-> <<"mul", FALSE>>,
    double_div |-> <<"div", FALSE>>, double_min |-> <<"min", FALSE>>, double_max |-> <<"max", FALSE>>]
MakeFloatALUSimple(i) ==
    LET half == Simple[i.opcode][2]
    IN Warn(i) \o StoreF(i, half, LoadF(i.src1, half) \o LoadF(i.src2, half) \o <<Op(F(half), Simple[i.opcode][1])>>)

(* The last operation, whether the result is negated, and the width.       *)
Large == [float_mul_add |-> <<"add", FALSE, TRUE>>, float_mul_sub |-> <<"sub", FALSE, TRUE>>,
    float_neg_mul_add |-> <<"add", TRUE, TRUE>>, float_neg_mul_sub |-> <<"sub", TRUE, TRUE>>,
    double_mul_add |-> <<"add", FALSE, FALSE>>, double_mul_sub |-> <<"sub", FALSE, FALSE>>,
    double_neg_mul_add |-> <<"add", TRUE, FALSE>>, double_neg_mul_sub |-> <<"sub", TRUE, FALSE>>]
MakeFloatALULarge(i) ==
    LET op == Large[i.opcode]
        half == op[3]
    IN Warn(i) \o StoreF(i, half,
           LoadF(i.src1, half) \o LoadF(i.src2, half) \o <<Op(F(half), "mul")>> \o LoadF(i.src3, half)
           \o <<Op(F(half), op[1])>> \o IF op[2] THEN <<One(IF half THEN "neg32" ELSE "neg64")>> ELSE <<>>)

MakeFloatConvert(i) ==
    LET shrinks == i.opcode = "double_to_float"
    IN Warn(i) \o StoreF(i, shrinks, LoadF(i.src1, ~shrinks) \o <<One(IF shrinks THEN "demote" ELSE "promote")>>)

(* fMakeFloatSign.                                                         *)
Signs == [float_sign_copy |-> <<"copy", TRUE>>, float_sign_invert |-> <<"invert", TRUE>>,
    float_sign_xor |-> <<"xor", TRUE>>, double_sign_copy |-> <<"copy", FALSE>>,
    double_sign_invert |-> <<"invert", FALSE>>, double_sign_xor |-> <<"xor", FALSE>>]
MakeFloatSign(i) ==
    LET op == Signs[i.opcode][1]
        half == Signs[i.opcode][2]
        toInt == op = "xor"
        bits == <<One(IF half THEN "f32_bits" ELSE "f64_bits")>>
        code == CASE op = "copy" -> <<Op(F(half), "copysign")>>
                  [] op = "invert" -> <<One(IF half THEN "neg32" ELSE "neg64"), Op(F(half), "copysign")>>
                  [] op = "xor" -> bits \o <<Const(T(half), 2 ^ (Width(T(half)) - 1)), Op(T(half), "and"),
                                             Op(T(half), "xor")>>
    IN Warn(i) \o SetF(i.dest) \o LoadF(i.src1, half) \o (IF toInt THEN bits ELSE <<>>) \o LoadF(i.src2, half)
       \o code \o (IF half THEN ExpandFloat(toInt) ELSE <<>>) \o NowF(half \/ toInt)

(* fMakeFloatCompare and fMakeFloatUnary.                                  *)
Compares == [float_equal |-> <<"eq", TRUE>>, float_less_equal |-> <<"le", TRUE>>, float_less_than |-> <<"lt", TRUE>>,
    double_equal |-> <<"eq", FALSE>>, double_less_equal |-> <<"le", FALSE>>, double_less_than |-> <<"lt", FALSE>>]
MakeFloatCompare(i) ==
    LET half == Compares[i.opcode][2]
    IN Warn(i) \o StoreReg(i.dest, LoadF(i.src1, half) \o LoadF(i.src2, half)
                                   \o <<Op(F(half), Compares[i.opcode][1]), One("expand_u")>>)
Unaries == [float_sqrt |-> TRUE, float_classify |-> TRUE, double_sqrt |-> FALSE, double_classify |-> FALSE]
MakeFloatUnary(i) ==
    LET half == Unaries[i.opcode]
    IN IF i.opcode \in {"float_sqrt", "double_sqrt"}
       THEN Warn(i) \o StoreF(i, half, LoadF(i.src1, half) \o <<One(IF half THEN "sqrt32" ELSE "sqrt64")>>)
       ELSE Warn(i) \o StoreReg(i.dest, LoadF(i.src1, half)
                \o (IF half THEN <<One("f32_bits"), One("expand_u")>> ELSE <<One("f64_bits")>>)
                \o << <<"invoke", F(half)>> >>)

-----------------------------------------------------------------------------
(* Translate::next; ecall, the exceptions and the flush of instructions    *)
(* end the code, as sys::Writer makes them (the first after the call).     *)
Code(i, pc, next) ==
    LET name == i.opcode
    IN CASE name \in {"misaligned", "ebreak"} -> <<Raise(name, pc)>>
         [] name = "illegal_instruction" -> <<Raise("illegal", pc)>>
         [] name = "_invalid" -> <<Raise("notimpl", pc)>>
         [] name \in {"nop", "fence"} -> <<>>
         [] name = "ecall" -> <<Raise("syscall", next)>>
         [] name = "fence_inst" -> <<Raise("continue", next)>>
         [] name \in {"load_upper_imm", "add_upper_imm_pc", "multi_load_imm", "multi_load_address"} -> MakeImms(i, pc)
         [] name \in {"jump_and_link_imm", "multi_call", "multi_tail"} -> MakeJALI(i, pc, next)
         [] name = "jump_and_link_reg" -> MakeJALR(i, pc, next)
         [] name \in DOMAIN Branches -> MakeBranch(i, pc, next)
         [] name \in DOMAIN AluImm -> MakeALUImm(i) [] name \in DOMAIN AluReg -> MakeALUReg(i)
         [] name \in DOMAIN Loads -> MakeLoad(i, FALSE, pc) [] name \in DOMAIN MultiLoads -> MakeLoad(i, TRUE, pc)
         [] name \in DOMAIN Stores -> MakeStore(i, FALSE, pc, next)
         [] name \in DOMAIN MultiStores -> MakeStore(i, TRUE, pc, next)
         [] name \in {"mul_high_s_reg", "mul_high_s_u_reg", "mul_high_u_reg"} -> MakeMul(i)
         [] name \in DOMAIN DivRem -> MakeDivRem(i)
         [] name \in {"load_reserved_w", "load_reserved_d"} -> MakeAMOLR(i, pc)
         [] name \in {"store_conditional_w", "store_conditional_d"} -> MakeAMOSC(i, pc, next)
         [] name \in DOMAIN Amo -> MakeAMO(i, pc, next)
         [] name \in {"load_float", "load_double"} -> MakeFLoad(i, FALSE, pc)
         [] name \in {"multi_load_float", "multi_load_double"} -> MakeFLoad(i, TRUE, pc)
         [] name \in {"store_float", "store_double"} -> MakeFStore(i, FALSE, pc, next)
         [] name \in {"multi_store_float", "multi_store_double"} -> MakeFStore(i, TRUE, pc, next)
         [] name \in {"csr_read_write", "csr_read_and_set", "csr_read_and_clear", "csr_read_write_imm",
                      "csr_read_and_set_imm", "csr_read_and_clear_imm"} -> MakeCSR(i, pc)
         [] name \in DOMAIN FloatToInt -> MakeFloatToInt(i) [] name \in DOMAIN IntToFloat -> MakeIntToFloat(i)
         [] name \in DOMAIN Simple -> MakeFloatALUSimple(i) [] name \in DOMAIN Large -> MakeFloatALULarge(i)
         [] name \in {"float_to_double", "double_to_float"} -> MakeFloatConvert(i)
         [] name \in DOMAIN Signs -> MakeFloatSign(i) [] name \in DOMAIN Compares -> MakeFloatCompare(i)
         [] name \in DOMAIN Unaries -> MakeFloatUnary(i)
=============================================================================
