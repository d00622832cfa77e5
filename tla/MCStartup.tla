------------------------------- MODULE MCStartup -------------------------------
(* A small instance of Startup for TLC: the old server first writes one       *)
(* document, then another one beside it, then only the other.                 *)
EXTENDS Startup

CONSTANTS note, letter

ThreeSnapshots == <<{note}, {note, letter}, {letter}>>
================================================================================
