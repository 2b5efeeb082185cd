---------------------------- MODULE MCFileTransfer ----------------------------
(* Finite instances of FileTransfer for TLC. *)
EXTENDS FileTransfer, TLC

(* A directory with a subdirectory that holds one file. *)
DeepPaths == {Root, <<"d">>, <<"d", "f">>}

(* A file beside a directory that holds a file of the same name. *)
TwinPaths == {Root, <<"f">>, <<"d">>, <<"d", "f">>}

TheDir == {<<"d">>}

(* The faults that the walks tolerate together, and the ones they do not.   *)
ToleratedFaults == {{"interrupt"}, {"overlap", "edit"}}
InterruptAndOverlap == {{"interrupt", "overlap"}}
InterruptAndEdit == {{"interrupt", "edit"}}
EditUpload == {{"editUpload"}}

NoFault == {{}}

(* What SkipIsSound would say of every path, renamed files included.  The   *)
(* walks of sftp.go do not promise it.                                      *)
SkipAlways == AllIdle => \A p \in Paths : LooksSame(p) => SameContents(p)

(* The daemon's goroutines are interchangeable. *)
Symmetry == Permutations(Transfers)
===============================================================================
