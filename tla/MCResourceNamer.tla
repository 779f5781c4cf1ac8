-------------------------- MODULE MCResourceNamer --------------------------
(***************************************************************************)
(* ResourceNamer scaled down: maxChars 253 and a 10-character digest       *)
(* become 5 and 1, so that keys of up to 6 characters reach both branches  *)
(* of the length test (room for the prefix is 5 - 2 = 3 characters).       *)
(***************************************************************************)
EXTENDS ResourceNamer

MCLower == {"a", "0"}
MCOther == {"A", "_"}
=============================================================================
