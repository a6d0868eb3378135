-------------------------------- MODULE MCFs --------------------------------
(* A small instance of the file operations for TLC. *)
EXTENDS Fs, TLC

(* Reading, an exclusive creation, and one that O_TRUNC overrides on       *)
(* Windows.                                                                *)
SomeFlags == {{}, {"RDWR", "CREAT", "EXCL"}, {"WRONLY", "CREAT", "EXCL", "TRUNC"}}

(* Requests and files are only compared, so they are interchangeable. *)
Symmetry == Permutations(Ops) \cup Permutations(Files)
=============================================================================
