----------------------------- MODULE SSHStreams -----------------------------
(***************************************************************************)
(* What the SSH proxy hands to its target: an instance of CommandFilter,   *)
(* beside which other streams can be checked.                              *)
(***************************************************************************)
EXTENDS Naturals

CONSTANTS Bytes, Blanks, Controls, LineEnds, RuleLists, Buffer, MaxBytes

\* io.Copy comes with a buffer that is not empty.
ASSUME BufferType == Buffer \in Nat \ {0} /\ MaxBytes \in Nat

VARIABLES rules, line, buf, delivered, notices, ended, typed

Filter == INSTANCE CommandFilter

-----------------------------------------------------------------------------
(* Properties *)

\* See CommandFilter: the target is given exactly the lines that pass.
FilteredAsWhole == Filter!FilteredAsWhole
=============================================================================
