------------------------- MODULE MCDescriptorLeases -------------------------
(* DescriptorLeases for a root, one Trash lease of two roles and a parent. *)
EXTENDS DescriptorLeases

CONSTANT trash

MCRolesOf == [b \in Bundles |-> Roles]

MCRank == [r \in Roles |-> IF r = "files" THEN 1 ELSE 2]

(* DuplicateTrashDescriptorPair lends files and info together. *)
MCHandoffs == [b \in Bundles |-> {Roles}]
=============================================================================
