------------------------------- MODULE Pseudo -------------------------------
(***************************************************************************)
(* How neighboring instructions are joined to one (rv64::DetectPseudo and  *)
(* Cpu::fFetch): lui and what adds to it becomes one load of a constant,   *)
(* auipc and the instruction after it one access, address or call.  The    *)
(* names that only the printed form uses are left out.                     *)
(***************************************************************************)
EXTENDS Decoder

None == [state |-> "none", imm |-> 0, reg |-> 0, size |-> 0, luiImm |-> 0, luiSize |-> 0]

(* fRestore and fCloseLI.                                                  *)
Restore(detect, inst) ==
    [inst EXCEPT !.opcode = IF detect.state = "auipc" THEN "add_upper_imm_pc" ELSE "load_upper_imm",
                 !.imm = detect.imm, !.dest = detect.reg, !.size = detect.size]
CloseLI(detect, inst) ==
    [inst EXCEPT !.opcode = "multi_load_imm", !.imm = detect.luiImm, !.size = detect.luiSize, !.dest = detect.reg]

Answered(detect, inst, more) == [detect |-> detect, inst |-> inst, more |-> more]

(* fMatchFirst: what the first instruction becomes, and the state it leads *)
(* to; "more" asks for another instruction.                                *)
MatchFirst(detect, inst) ==
    CASE inst.opcode = "add_imm" /\ inst.src1 = 0 -> Answered(detect, [inst EXCEPT !.opcode = "multi_load_imm"], FALSE)
      [] inst.opcode = "add_upper_imm_pc" /\ inst.dest # 0 -> Answered([detect EXCEPT !.state = "auipc"], inst, TRUE)
      [] inst.opcode = "load_upper_imm" ->
             Answered([detect EXCEPT !.state = "lui", !.luiImm = inst.imm, !.luiSize = inst.size], inst, TRUE)
      [] OTHER -> Answered(detect, inst, FALSE)

(* fContinueAUIPC: what an instruction becomes after auipc.  Where a name  *)
(* stands in the first table both registers must be the one of auipc, in   *)
(* the second the source; any other instruction is taken as it is.         *)
ReplacesRegister == [name \in {"add_imm", "load_byte_s", "load_byte_u", "load_half_s", "load_half_u", "load_word_s",
                               "load_word_u", "load_dword"} |->
    CASE name = "add_imm" -> "multi_load_address" [] name = "load_byte_s" -> "multi_load_byte_s"
      [] name = "load_byte_u" -> "multi_load_byte_u" [] name = "load_half_s" -> "multi_load_half_s"
      [] name = "load_half_u" -> "multi_load_half_u" [] name = "load_word_s" -> "multi_load_word_s"
      [] name = "load_word_u" -> "multi_load_word_u" [] name = "load_dword" -> "multi_load_dword"]
ReadsRegister == [name \in {"load_float", "load_double", "store_byte", "store_half", "store_word", "store_dword",
                            "store_float", "store_double"} |->
    CASE name = "load_float" -> "multi_load_float" [] name = "load_double" -> "multi_load_double"
      [] name = "store_byte" -> "multi_store_byte" [] name = "store_half" -> "multi_store_half"
      [] name = "store_word" -> "multi_store_word" [] name = "store_dword" -> "multi_store_dword"
      [] name = "store_float" -> "multi_store_float" [] name = "store_double" -> "multi_store_double"]

(* MUTANT: the destination of a load is not looked at.                     *)
OtherRegisterSource(detect, inst) == inst.src1 # detect.reg
OtherRegister(detect, inst) ==
    inst.src1 # detect.reg \/ (inst.opcode \in DOMAIN ReplacesRegister /\ inst.dest # detect.reg)

ContinueAUIPC(detect, inst) ==
    LET name == inst.opcode
        jump == name = "jump_and_link_reg"
        restored ==
            \/ name \in DOMAIN ReplacesRegister \cup DOMAIN ReadsRegister /\ OtherRegister(detect, inst)
            \/ jump /\ ~(detect.reg = 6 /\ inst.src1 = 6 /\ inst.dest \in {0, 1})
        joined == CASE name \in DOMAIN ReplacesRegister -> ReplacesRegister[name]
                    [] name \in DOMAIN ReadsRegister -> ReadsRegister[name]
                    [] jump -> IF inst.dest = 1 THEN "multi_call" ELSE "multi_tail"
                    [] OTHER -> name
    IN IF restored THEN Restore(detect, inst)
       ELSE [inst EXCEPT !.opcode = joined, !.temp = detect.imm, !.imm = detect.imm + @, !.size = detect.size + @]

(* fContinueLUI.                                                           *)
ContinueLUI(detect, inst) ==
    LET same == inst.src1 = detect.reg /\ inst.dest = detect.reg
        longer(state, imm) == [detect EXCEPT !.state = state, !.luiImm = imm, !.luiSize = @ + inst.size]
    IN CASE same /\ inst.opcode = "shift_left_logic_imm" /\ detect.state = "luiAdded" ->
                Answered(longer("luiShifted", detect.luiImm * 2 ^ inst.imm), inst, TRUE)
         [] same /\ inst.opcode = "add_imm" /\ detect.state \in {"lui", "luiShifted"} ->
                Answered(longer("luiAdded", detect.luiImm + inst.imm), inst, TRUE)
         [] OTHER -> Answered(detect, IF detect.state = "lui" THEN Restore(detect, inst) ELSE CloseLI(detect, inst), FALSE)

(* DetectPseudo::next.  The state is compared after fMatchFirst has left   *)
(* the one it began in, so that no second instruction is ever asked for.   *)
Begun(multi) == [None EXCEPT !.state = IF multi THEN "multi" ELSE "none"]
Original(detect, inst) == [detect EXCEPT !.imm = inst.imm, !.reg = inst.dest, !.size = inst.size]
Continue(detect, inst) ==
    IF detect.state = "auipc" THEN Answered(detect, ContinueAUIPC(detect, inst), FALSE) ELSE ContinueLUI(detect, inst)

Next(detect, inst) ==
    LET first == MatchFirst(detect, inst)
    IN IF detect.state \notin {"none", "multi"} THEN Continue(detect, inst)
       ELSE IF first.more /\ first.detect.state = "multi"
       THEN [first EXCEPT !.detect = Original(first.detect, inst)] ELSE [first EXCEPT !.more = FALSE]

(* close, when there is a fault behind what was read.                      *)
Close(detect) ==
    IF detect.state \in {"auipc", "lui"} THEN Restore(detect, Invalid(0)) ELSE CloseLI(detect, Invalid(0))

(* Cpu::fFetch of the instructions as fFetchRaw reads them, "fault" among  *)
(* them behind the first.                                                  *)
Fetch(multi, raw) ==
    LET step[i \in 1..Len(raw)] ==
            IF i = 1 THEN Next(Begun(multi), raw[1])
            ELSE IF ~step[i - 1].more THEN step[i - 1]
            ELSE IF raw[i].opcode = "fault" THEN Answered(step[i - 1].detect, Close(step[i - 1].detect), FALSE)
            ELSE Next(step[i - 1].detect, raw[i])
    IN step[Len(raw)].inst
=============================================================================
