------------------------------ MODULE FileOps ------------------------------
(***************************************************************************)
(* The file-system vocabulary that the adapters and the runtime share.     *)
(* The kernel is not part of the repository: these operators are external, *)
(* modelled from how the adapters and the runtime call it.  A file is the  *)
(* sequence of its bytes; the byte at offset o is element o + 1.           *)
(***************************************************************************)
EXTENDS Naturals, Sequences

CONSTANTS
    Values,     \* the bytes a program writes
    Zero,       \* the byte a hole in a file reads as
    None        \* "no such thing": no inode, no entry, no pointer, no result

Bytes == Values \union {Zero}

\* pwrite: n copies of byte v at offset off; a gap before off reads as Zero.
WriteAt(file, off, v, n) ==
    [i \in 1 .. (IF off + n > Len(file) THEN off + n ELSE Len(file)) |->
        IF i \in off + 1 .. off + n THEN v
        ELSE IF i <= Len(file) THEN file[i] ELSE Zero]

\* pread: the at most n bytes that the file has from offset off on.
ReadAt(file, off, n) ==
    LET avail == IF off >= Len(file) THEN 0
                 ELSE IF off + n > Len(file) THEN Len(file) - off ELSE n
    IN  [i \in 1 .. avail |-> file[off + i]]

\* Where lseek(whence, d) lands, from position pos in a file.
SeekTarget(file, pos, whence, d) ==
    CASE whence = "SEEK_SET" -> d
      [] whence = "SEEK_CUR" -> pos + d
      [] whence = "SEEK_END" -> Len(file) + d
=============================================================================
