--------------------------- MODULE MCStagedObject ---------------------------
(* StagedObject on a directory of two files and a directory. *)
EXTENDS StagedObject, TLC

MCNodes == {"root", "file", "dir", "deep"}
MCBeneath ==
  [n \in MCNodes |-> CASE n = "root" -> MCNodes \ {"root"}
                      [] n = "dir" -> {"deep"}
                      [] OTHER -> {}]
=============================================================================
