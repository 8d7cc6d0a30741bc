------------------------------ MODULE JsonLines ------------------------------
(***************************************************************************)
(* An append-only file of JSON lines, as the publication journal           *)
(* (adapters jsonl_publication_journal.rs) and the catalog                 *)
(* (jsonl_catalog_store.rs) write it: writeln! on an unbuffered file, one  *)
(* write for the line and one for its newline, then sync_data.             *)
(*                                                                         *)
(* A file is its lines, oldest first, and whether the last one still lacks *)
(* its newline.                                                            *)
(***************************************************************************)
EXTENDS Naturals, Sequences, SequencesExt

CONSTANTS
  Torn,    \* a line that does not parse
  MayTear  \* whether an append may stop half-way

NewFile == [lines |-> <<>>, unended |-> FALSE]

(* What a write at the end of file makes of its lines: an unended last     *)
(* line and the new one are then one line, which does not parse.           *)
LinesWith(file, line) ==
  IF file.unended THEN Append(Front(file.lines), Torn) ELSE Append(file.lines, line)

(* The whole line and its newline. *)
Written(file, line) == [lines |-> LinesWith(file, line), unended |-> FALSE]

(* What an append that stopped half-way leaves: part of the line, or the   *)
(* line without its newline.                                               *)
HalfWritten(file, line) ==
  IF MayTear THEN {[lines |-> LinesWith(file, l), unended |-> TRUE] : l \in {Torn, line}}
  ELSE {}

(* What a death during the append may leave. *)
Interrupted(file, line) == {file} \cup HalfWritten(file, line)

(* What an append that returned WriteFailed may leave: nothing, the line   *)
(* whose sync_data failed, or half of it.                                  *)
Failed(file, line) == {file, Written(file, line)} \cup HalfWritten(file, line)

Parses(file) == \A i \in DOMAIN file.lines : file.lines[i] # Torn
=============================================================================
