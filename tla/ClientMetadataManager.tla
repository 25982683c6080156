----------------------- MODULE ClientMetadataManager -----------------------
(***************************************************************************)
(* The process-wide table of intercepted open files.  Each method of the   *)
(* C++ class holds the table's mutex for its whole body, so a method is    *)
(* one operator from the table to the table.  The POSIX table (keyed by    *)
(* descriptor) and the STDIO table (keyed by FILE pointer) have the same   *)
(* methods; a table is a total function with None where there is no entry. *)
(***************************************************************************)
CONSTANT None

\* A fresh entry: the flags the class also stores are never read back.
FileInfo(path) == [absolute_path |-> path, current_offset |-> 0]

\* posix_files_[fd] = FileInfo(...) replaces an entry that is there.
Register(files, fd, path) == [files EXCEPT ![fd] = FileInfo(path)]

IsRegistered(files, fd) == files[fd] # None

Unregister(files, fd) == [files EXCEPT ![fd] = None]

\* A mistaken UpdateOffset: posix_files_[fd].current_offset = off, with no find,
\* creates the entry of a descriptor that has none.
UpdateOffsetCreates(files, fd, off) ==
    [files EXCEPT ![fd] = [absolute_path |-> IF @ = None THEN None ELSE @.absolute_path,
                           current_offset |-> off]]

\* An entry that is gone is not created again.
UpdateOffset(files, fd, off) ==
    IF IsRegistered(files, fd)
    THEN [files EXCEPT ![fd].current_offset = off]
    ELSE files
=============================================================================
