-------------------------- MODULE MCFileDescriptors --------------------------
(* Values of the constants of FileDescriptors for model checking.          *)
EXTENDS FileDescriptors, TLC

OpenFlag(access) ==
  [access |-> access, create |-> FALSE, exclude |-> FALSE, truncate |-> FALSE,
   append |-> FALSE, directory |-> FALSE, closeOnExecute |-> FALSE]

(* Create a file that must be new; read a directory; rewrite a file; read  *)
(* and append, to a file or the terminal, until the next exec.             *)
MCOpenFlags ==
  {[OpenFlag("ReadOnly") EXCEPT !.create = TRUE, !.exclude = TRUE],
   [OpenFlag("ReadOnly") EXCEPT !.directory = TRUE],
   [OpenFlag("WriteOnly") EXCEPT !.create = TRUE, !.truncate = TRUE],
   [OpenFlag("ReadWrite") EXCEPT !.append = TRUE, !.closeOnExecute = TRUE]}

CONSTANTS file, directory, device
MCNodes == {file, directory, device}
MCType == [n \in MCNodes |-> CASE n = file -> "RegularFile" [] n = directory -> "Directory"
                               [] n = device -> "Terminal"]

(* Heap slots are alike, and so are the VFS objects that do not exist yet. *)
Symmetry == Permutations(Handles) \cup Permutations(Vfs \ {ShellVfs})
=============================================================================
