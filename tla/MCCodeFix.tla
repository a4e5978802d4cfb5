----------------------------- MODULE MCCodeFix -----------------------------
(* CodeFix for TLC: every patch replaces the first file, some the second.   *)
EXTENDS CodeFix, TLC

CONSTANTS f1, f2

MCPatches == {{f1}, {f1, f2}}
=============================================================================
