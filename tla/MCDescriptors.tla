--------------------------- MODULE MCDescriptors ---------------------------
(* Three files: two of one path, two that declare one service. *)
EXTENDS Descriptors

MCFilePool == {[path |-> "a", services |-> {"S"}], [path |-> "a", services |-> {"T"}],
               [path |-> "b", services |-> {"S", "T"}]}
=============================================================================
