----------------------------- MODULE StableLog -----------------------------
(***************************************************************************)
(* What RawNode needs of its storage (SaveReady): a log of terms, starting *)
(* at index 1, in which an append at index `first' replaces whatever is    *)
(* stored from there on, and in which there are never gaps.                *)
(***************************************************************************)
EXTENDS Integers, Sequences

VARIABLES
  log,      \* the terms of the entries
  request   \* the arguments of the last append: first index and terms

Init == log = <<>> /\ request = [first |-> 1, terms |-> <<>>]

Save ==
  log' = IF request'.first > Len(log) + 1 THEN log
         ELSE SubSeq(log, 1, request'.first - 1) \o request'.terms

Spec == Init /\ [][Save]_<<log, request>>
=============================================================================
