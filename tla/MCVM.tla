-------------------------------- MODULE MCVM ---------------------------------
(* Small instances of VM: sizes, pointers and instruction sequences.       *)
EXTENDS VM

\* 1 is a size the pid in the list head satisfies, 64 the one of coalesce-test.c
\* and 4096 the one of mem-test.c.
MCSizes == {0, 1, 64, 4096}
\* A cell below the list, the first one above, and one after a magic number.
MCPointers == {4, 4096, 4098}
MCPids == {0, 1}
\* The instructions are those of programs/simple.c, yld.c and brk.c as written
\* there, and sequences that reach the handlers these do not.
Yielding == <<61480, 61477, 61480, 61477, 61480>>   \* YLD HALT YLD HALT YLD
\* A heap grown by INU16, BRK, then used through R0 and through PC (JMP R0), and
\* shrunk again: STR, LDR, LD, ST, LDI, STI.
Heap == <<61478, 61481, 61478, 49152, 28672, 24576, 8192, 12288, 40960, 45056,
          61478, 61481>>
\* ADD R0,R0,R1; NOT R0,R0; AND R0,R0,0; BRz; JSR -1; JSRR R0; PUTS; GETC; OUT;
\* RTI; a trap vector outside the table.
Registers == <<4097, 36864, 20512, 1029, 20479, 16384, 61474, 61472, 61473, 32768, 61440>>
Simple == <<21088, 22816, 6442, 58376, 25728>>
Brk == <<21088, 22816, 4159, 61481, 6442, 58376, 25728>>
\* HALT, also of a process that no createProc() made.
Halting == <<61477>>
MCPrograms == {Yielding, Halting, Heap, Registers, Simple, Brk}
MCInputs == {1, 2, 255, 4096, 16384}
MCImage == <<4159, 61481>>
===============================================================================
