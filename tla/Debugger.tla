------------------------------ MODULE Debugger ------------------------------
(***************************************************************************)
(* The debugger (sys::Debugger): break points, the commands that let the   *)
(* guest go on, the check before each of its instructions, and the         *)
(* expressions that addresses are given by.  What it prints is left out.   *)
(*                                                                         *)
(* A session s is the state of the debugger (pHalt, pBreakPoints,          *)
(* pBreakIndices, pNextBreakPoint) with s.at, how far the guest is on the  *)
(* path of the addresses of its instructions.                              *)
(***************************************************************************)
EXTENDS Integers, Sequences, SequencesExt, FiniteSets

CONSTANTS
    Registers,      \* pRegisters, each a sequence of characters
    ValueOf,        \* what each of them and the program counter holds
    WordSize        \* one more than the largest value

-----------------------------------------------------------------------------
(* The check before each instruction.                                      *)

Setup == [mode |-> "none", count |-> 0, until |-> 0, breakSkip |-> FALSE,
          breakPoints |-> {}, breakIndices |-> <<>>, nextBreakPoint |-> 0, at |-> 1]

Hit(s, address) == address \in s.breakPoints /\ ~s.breakSkip

Halts(s, address) ==
    \/ Hit(s, address)
    \/ s.mode = "step" /\ s.count = 0
    \/ s.mode = "until" /\ address = s.until /\ ~s.breakSkip
    \/ s.mode = "none"

(* fCheck and fHalted; `disabled' is the mode of a debugger that was not   *)
(* set up.  A count that wraps is not read again before a step sets it.    *)
(* MUTANT: what a command skips is skipped until the guest halts.          *)
CheckSkipsOn(s, address) ==
    [s EXCEPT !.breakSkip = @ /\ ~Halts(s, address),
              !.count = IF s.mode = "step" /\ ~Hit(s, address) THEN @ - 1 ELSE @,
              !.mode = IF Halts(s, address) THEN "none" ELSE @]
Check(s, address) ==
    [s EXCEPT !.breakSkip = FALSE,
              !.count = IF s.mode = "step" /\ ~Hit(s, address) THEN @ - 1 ELSE @,
              !.mode = IF Halts(s, address) THEN "none" ELSE @]

First(S) == CHOOSE i \in S : \A j \in S : i <= j

(* The guest executes until it halts or has come to its end.               *)
Execute(s, path) ==
    LET ends == Len(path) + 1
        on[i \in s.at..ends] == IF i = s.at THEN s ELSE [Check(on[i - 1], path[i - 1]) EXCEPT !.at = i]
        stop == First({i \in s.at..ends : i = ends \/ Halts(on[i], path[i])})
    IN IF stop = ends THEN on[stop] ELSE Check(on[stop], path[stop])

-----------------------------------------------------------------------------
(* Commands.                                                               *)

Run(s, path) == Execute([s EXCEPT !.mode = "run", !.breakSkip = TRUE], path)
Step(s, path, count) ==
    LET t == [s EXCEPT !.mode = "step", !.breakSkip = TRUE, !.count = count]
    IN IF count > 0 THEN Execute(t, path) ELSE t
Until(s, path, address) == Execute([s EXCEPT !.mode = "until", !.breakSkip = TRUE, !.until = address], path)
AddBreak(s, address) ==
    [s EXCEPT !.breakPoints = @ \cup {address}, !.nextBreakPoint = @ + 1,
              !.breakIndices = [i \in DOMAIN @ \cup {s.nextBreakPoint} |->
                                   IF i = s.nextBreakPoint THEN address ELSE @[i]]]
DropBreak(s, index) ==
    IF index \notin DOMAIN s.breakIndices THEN s
    ELSE [s EXCEPT !.breakPoints = @ \ {s.breakIndices[index]},
                   !.breakIndices = [i \in DOMAIN @ \ {index} |-> @[i]]]

Do(s, path, command) ==
    CASE command[1] = "run" -> Run(s, path)
      [] command[1] = "step" -> Step(s, path, command[2])
      [] command[1] = "until" -> Until(s, path, command[2])
      [] command[1] = "add" -> AddBreak(s, command[2])
      [] command[1] = "drop" -> DropBreak(s, command[2])

-----------------------------------------------------------------------------
(* Expressions: an operand is [of, value, subtract], where `of' is a name  *)
(* or "number".                                                            *)

Digits == <<"0", "1", "2", "3", "4", "5", "6", "7", "8", "9">>
IsDigit(c) == \E d \in DOMAIN Digits : Digits[d] = c
Number(s) == FoldLeft(LAMBDA n, c : 10 * n + (CHOOSE d \in DOMAIN Digits : Digits[d] = c) - 1, 0, s)
Counter == <<"p", "c">>

(* The operand that the text begins with: its length and itself.           *)
Operand(of, value, subtract) == [of |-> of, value |-> value, subtract |-> subtract]
RunOf(s) == CHOOSE n \in 1..Len(s) :
                (\A i \in 1..n : IsDigit(s[i])) /\ (n = Len(s) \/ ~IsDigit(s[n + 1]))
Matching(s) == {j \in DOMAIN Registers : IsPrefix(Registers[j], s)}
NoOperand == [length |-> 0]
ReadOperand(s, subtract) ==
    IF IsDigit(s[1]) THEN [length |-> RunOf(s), of |-> "number", value |-> Number(SubSeq(s, 1, RunOf(s))), subtract |-> subtract]
    ELSE IF IsPrefix(Counter, s) THEN [length |-> 2, of |-> Counter, value |-> 0, subtract |-> subtract]
    ELSE IF Matching(s) = {} THEN NoOperand
    ELSE LET name == Registers[First(Matching(s))]
         IN [length |-> Len(name), of |-> name, value |-> 0, subtract |-> subtract]

(* fParseExpression, character by character, p.next being the one to go on *)
(* with.  A sign at the end is reported, but not refused.                  *)
Sign(p, c) ==
    [p EXCEPT !.lastWasSign = TRUE, !.subtract = c = "-",
              !.out = IF @ = <<>> THEN <<Operand("number", 0, FALSE)>> ELSE @]
Token(p, s, i) ==
    LET read == ReadOperand(SubSeq(s, i, Len(s)), p.subtract) IN
    IF (~p.lastWasSign /\ p.out # <<>>) \/ read = NoOperand THEN [p EXCEPT !.valid = FALSE]
    ELSE [p EXCEPT !.next = i + read.length, !.lastWasSign = FALSE,
                   !.out = Append(@, Operand(read.of, read.value, read.subtract))]
ParseExpression(s) ==
    LET read(p, i) ==
            IF ~p.valid \/ i < p.next \/ s[i] = " " THEN p
            ELSE IF ~p.lastWasSign /\ s[i] \in {"+", "-"} THEN Sign(p, s[i])
            ELSE Token(p, s, i)
        end == FoldLeft(read, [next |-> 1, lastWasSign |-> FALSE, subtract |-> FALSE, out |-> <<>>, valid |-> TRUE],
                        [i \in 1..Len(s) |-> i])
    IN [valid |-> end.valid /\ end.out # <<>>, out |-> end.out]

(* fEvalExpression.                                                        *)
(* MUTANT: only the last operand is subtracted.                            *)
EvalExpressionLast(out) ==
    FoldLeft(LAMBDA sum, o : LET value == IF o.of = "number" THEN o.value ELSE ValueOf[o.of]
                             IN (IF o.subtract /\ o = out[Len(out)] THEN sum - value ELSE sum + value) % WordSize, 0, out)
EvalExpression(out) ==
    FoldLeft(LAMBDA sum, o : LET value == IF o.of = "number" THEN o.value ELSE ValueOf[o.of]
                             IN (IF o.subtract THEN sum - value ELSE sum + value) % WordSize, 0, out)
=============================================================================
