----------------------------- MODULE MCDebugger -----------------------------
(***************************************************************************)
(* The debugger on bounded inputs: a state is a path of the guest, or the  *)
(* beginning of an expression.                                             *)
(***************************************************************************)
EXTENDS Naturals

CONSTANTS
    MaxPath,        \* the number of instructions the guest executes
    MaxRest         \* the characters of an expression behind the first two

(* The names begin alike, or one with the other, as those of the guest do. *)
Sp == <<"s", "p">>
S1 == <<"s", "1">>
S10 == <<"s", "1", "0">>
Pc == <<"p", "c">>
Names == <<Sp, S1, S10>>
Values == [name \in {Sp, S1, S10, Pc} |-> CASE name = Sp -> 40 [] name = S1 -> 7 [] name = S10 -> 25 [] name = Pc -> 12]
INSTANCE Debugger WITH Registers <- Names, ValueOf <- Values, WordSize <- 64

VARIABLE input

Addresses == 0..2
Chars == {"s", "p", "c", "1", "0", " ", "+", "-"}
Commands == {<<"run">>, <<"until", 1>>} \cup ({"step"} \X {0, 1, 3}) \cup ({"add"} \X {1, 2}) \cup ({"drop"} \X {0, 1})

ChoosePath == input = <<"start">> /\ \E n \in 1..MaxPath, p \in [1..MaxPath -> Addresses] : input' = <<"path", SubSeq(p, 1, n)>>
ChooseBegin == input = <<"start">> /\ \E c \in [1..2 -> Chars] : input' = <<"expression", c>>
Again == input # <<"start">> /\ input' = <<"start">>
NextInput == ChoosePath \/ ChooseBegin \/ Again

-----------------------------------------------------------------------------
(* The break points that are listed, each added once (see the README).     *)
Listed(s) == {s.breakIndices[i] : i \in DOMAIN s.breakIndices}
AddsTwice(s, command) == command[1] = "add" /\ command[2] \in Listed(s)

(* Where the guest is to halt: at the next break point, or as soon as the  *)
(* command says, in any case behind the instruction it is at; or it ends.  *)
HaltsAt(s, path, command) ==
    LET here(i) == \/ path[i] \in Listed(s)
                   \/ command[1] = "step" /\ i = s.at + command[2]
                   \/ command[1] = "until" /\ path[i] = command[2]
    IN First({i \in s.at + 1..Len(path) + 1 : i > Len(path) \/ here(i)})

(* Whatever was asked of the debugger before, a command that lets the      *)
(* guest go on halts it where its description says, once and not twice at  *)
(* the same instruction, and no other command makes it move.               *)
Obeys(s, path, command) ==
    LET t == Do(s, path, command) IN
    CASE s.at > Len(path) \/ command[1] \in {"add", "drop"} \/ command = <<"step", 0>> -> t.at = s.at
      [] OTHER -> t.at = HaltsAt(s, path, command)

Sessions(path, length) ==
    LET reach[n \in 0..length] ==
            IF n = 0 THEN {Execute(Setup, path)}
            ELSE {Do(sc[1], path, sc[2]) : sc \in {x \in reach[n - 1] \X Commands : ~AddsTwice(x[1], x[2])}}
    IN UNION {reach[n] : n \in 0..length}

HaltsAsAsked ==
    input[1] = "path" =>
        /\ Execute(Setup, input[2]).at = 1
        /\ \A s \in Sessions(input[2], 4), command \in Commands : Obeys(s, input[2], command)

-----------------------------------------------------------------------------
(* The reference for expressions: the text is cut at its signs, and what   *)
(* is between them are operands; only the first sign may lack one.         *)
Cuts(s) == {i \in 1..Len(s) : s[i] \in {"+", "-"}}
Part(s, from) == SubSeq(s, from + 1, First({i \in Cuts(s) \cup {Len(s) + 1} : i > from}) - 1)
Trim(s) ==
    LET full == {i \in 1..Len(s) : s[i] # " "} IN
    IF full = {} THEN <<>> ELSE SubSeq(s, First(full), CHOOSE i \in full : \A j \in full : i >= j)
Parts(s) == [from \in {0} \cup Cuts(s) |-> Trim(Part(s, from))]
Known(t) == t \in {Sp, S1, S10, Pc} \/ (t # <<>> /\ \A i \in 1..Len(t) : IsDigit(t[i]))
Written(s) ==
    LET parts == Parts(s) IN
    /\ \A from \in Cuts(s) : Known(parts[from])
    /\ Known(parts[0]) \/ (parts[0] = <<>> /\ Cuts(s) # {})
Worth(t) == IF t = <<>> THEN 0 ELSE IF t \in {Sp, S1, S10, Pc} THEN Values[t] ELSE Number(t)
Sum(s) ==
    LET total[i \in 0..Len(s)] ==
            IF i = 0 THEN Worth(Parts(s)[0])
            ELSE total[i - 1] + (IF s[i] = "+" THEN Worth(Parts(s)[i]) ELSE IF s[i] = "-" THEN 64 - (Worth(Parts(s)[i]) % 64) ELSE 0)
    IN total[Len(s)] % 64

(* Where the code is known to read something else: a sign at the end, and  *)
(* a name that begins with one that is listed before.                      *)
Misread(s) ==
    \/ Cuts(s) # {} /\ Trim(Part(s, CHOOSE i \in Cuts(s) : \A j \in Cuts(s) : i >= j)) = <<>>
    \/ \E from \in {0} \cup Cuts(s) : Parts(s)[from] = S10

(* Every expression of the form that fParseExpression states is read, and  *)
(* evaluates to the sum of its operands; nothing else is taken for one.    *)
ExpressionsRead ==
    input[1] = "expression" =>
        \A n \in 0..MaxRest : \A rest \in [1..n -> Chars] :
            LET s == input[2] \o rest
                parsed == ParseExpression(s)
            IN Misread(s) \/ /\ parsed.valid <=> Written(s)
                             /\ Written(s) => EvalExpression(parsed.out) = Sum(s)
=============================================================================
