----------------------------- MODULE MCKeywords -----------------------------
(***************************************************************************)
(* Every setting of the table, in the block of its row.                    *)
(***************************************************************************)
EXTENDS Keywords, SymTable

MCTable == SYMTABLE
=============================================================================
