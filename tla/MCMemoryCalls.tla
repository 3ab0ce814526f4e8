---------------------------- MODULE MCMemoryCalls ----------------------------
(* Memory calls on five pages of two bytes; the program is in the first.   *)
EXTENDS MemoryCalls

MCProgram == {0}
Code == {"read", "execute"}
Data == {"read", "write"}


Mmaps(addresses, lengths, hows, froms, files) ==
    [op : {"mmap"}, address : addresses, length : lengths, usage : {Data}, how : hows,
     from : froms, file : files]

Mremaps(lengths, tos, flags) ==
    [op : {"mremap"}, address : {2, 4}, length : lengths, to : tos, flags : flags, dest : {4}]

MCRequests ==
    [op : {"brk"}, address : {1, 2, 3}]
    \union Mmaps({0}, {3}, {"any"}, {"anonymous"}, {0})
    \union Mmaps({0}, {4}, {"any"}, {"file", "refused"}, {1})
    \union Mmaps({0, 2, 4}, {4}, {"fixed", "noreplace"}, {"anonymous"}, {0})
    \union Mmaps({1}, {2}, {"fixed"}, {"anonymous"}, {0})
    \union [op : {"mprotect"}, address : {0, 1, 4}, length : {0, 1}, usage : {Data}]
    \union [op : {"munmap"}, address : {0, 1, 2, 4, 6, 8}, length : {1}]
    \union [op : {"munmap"}, address : {2}, length : {0, 4}]
    \union Mremaps({2}, {4}, {{}, {"maymove"}})
    \union Mremaps({3}, {2, 4}, {{}, {"maymove"}})
    \union Mremaps({2}, {2}, {{"maymove", "fixed"}, {"maymove", "dontunmap"}, {"fixed"}})
    \union Mremaps({2}, {0}, {{}}) \union Mremaps({2}, {3}, {{"maymove"}})
=============================================================================
