------------------------------- MODULE FileData -------------------------------
(***************************************************************************)
(* The bytes of a file, as the host keeps them (filesystem.ts): a file is  *)
(* a sequence of bytes, and one that does not exist is Absent.  And the    *)
(* flags an open file may have, as fcntl answers them.                     *)
(***************************************************************************)
EXTENDS Integers, Sequences, SequencesExt

CONSTANTS
    Absent,         \* no such file
    MaxSize         \* the longest file the host can allocate

ASSUME FileDataAssumption == MaxSize \in Nat

Least(a, b) == IF a <= b THEN a ELSE b

(* fileRead: what is there of the bytes asked for; an offset outside of    *)
(* the file reads nothing.                                                 *)
ReadAt(bytes, offset, count) ==
    IF offset < 0 \/ offset >= Len(bytes) THEN <<>>
    ELSE SubSeq(bytes, offset + 1, Least(offset + count, Len(bytes)))

Zeros(n) == [i \in 1..n |-> 0]
Grown(bytes, size) == IF size <= Len(bytes) THEN bytes ELSE bytes \o Zeros(size - Len(bytes))

(* fileWrite: the number of bytes written, which is less when the host     *)
(* cannot allocate the longer file, and the file afterwards.               *)
CanHold(bytes, offset, count) == offset >= 0 /\ (offset + count <= Len(bytes) \/ offset + count <= MaxSize)
WriteCount(bytes, offset, new) ==
    CASE CanHold(bytes, offset, Len(new)) -> Len(new)
      [] ~CanHold(bytes, offset, Len(new)) /\ (offset < 0 \/ offset >= Len(bytes)) -> 0
      [] OTHER -> Least(Len(new), Len(bytes) - offset)
WriteAt(bytes, offset, new) ==
    LET count == WriteCount(bytes, offset, new)
        old == Grown(bytes, offset + count)
    IN IF count = 0 THEN bytes
       ELSE [i \in 1..Len(old) |-> IF i \in offset + 1..offset + count THEN new[i - offset] ELSE old[i]]

(* The flags of an open file in one order, the ones of its opening first.  *)
CreationFlags == {"create", "exclusive", "noctty", "truncate"}
FlagOrder == <<"create", "exclusive", "noctty", "truncate", "append", "path", "nonblock">>
InOrder(flags) == SelectSeq(FlagOrder, LAMBDA flag : flag \in flags)

(* fileResize.                                                             *)
ResizeTo(bytes, size) == IF size <= Len(bytes) THEN SubSeq(bytes, 1, size) ELSE Grown(bytes, size)
=============================================================================
