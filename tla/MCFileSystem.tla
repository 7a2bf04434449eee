--------------------------- MODULE MCFileSystem ---------------------------
(* The instance of FileSystem for TLC: two archives.  In one a file comes  *)
(* before the header of its directory; the other has an empty directory    *)
(* and one that only its files name.                                       *)
EXTENDS FileSystem, TLC

MCDirNames == {"bin/", "etc/", "sub/", "none/"}

File(path, size) == [path |-> path, size |-> size]
Dir(path) == [path |-> path, size |-> 0]

MCArchives ==
  { << File(<<"bin/", "ls">>, 2), Dir(<<"bin/">>), File(<<"bin/", "sh">>, 3),
       File(<<"bin/", "sub/", "ls">>, 1) >>,
    << Dir(<<"etc/">>), Dir(<<"bin/">>), File(<<"bin/", "sh">>, 2),
       File(<<"sub/", "sh">>, 2) >> }

Interchangeable == Permutations(Procs)
=============================================================================
