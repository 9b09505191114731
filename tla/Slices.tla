------------------------------- MODULE Slices -------------------------------
(***************************************************************************)
(* The operations on Go slices that the models use.  They are those of     *)
(* SequencesExt, restated because that module, with all it extends, is in  *)
(* the context of every proof obligation of a module that reaches it.      *)
(***************************************************************************)
EXTENDS Integers, Sequences, Functions

Last(s)  == s[Len(s)]
Front(s) == SubSeq(s, 1, Len(s) - 1)

RemoveAt(s, i) == SubSeq(s, 1, i - 1) \o SubSeq(s, i + 1, Len(s))
=============================================================================
