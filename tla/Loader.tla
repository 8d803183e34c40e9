------------------------------- MODULE Loader -------------------------------
(***************************************************************************)
(* Program text to opcodes (dpcrun.cpp:36-81).  A character is a string of *)
(* length one; the bell is written "bell".                                 *)
(***************************************************************************)
EXTENDS Opcodes, Places

Symbols ==
  {"N", "H", "+", "-", ">", "<", "[", "]", ".", ",", "0", "M", "G", "P", "D",
   "B", "bell", "E", "S", "{", "}", "L", "I", "A", "R", "r"}

(* The opcode of a symbol, whichever ISA it belongs to. *)
SymbolToOpcode(c) ==
  CASE c = "N" -> OP_NOP      [] c = "H" -> OP_HALT
    [] c = "+" -> BF_INC      [] c = "-" -> BF_DEC
    [] c = ">" -> BF_AINC     [] c = "<" -> BF_ADEC
    [] c = "[" -> BF_LBEG     [] c = "]" -> BF_LEND
    [] c = "." -> BF_COUT     [] c = "," -> BF_CIN
    [] c = "0" -> OP_CLRD     [] c = "M" -> BF_CLRML
    [] c = "G" -> BF_LOAD     [] c = "P" -> BF_STORE
    [] c = "D" -> OP_ISA0     [] c = "B" -> OP_ISA1
    [] c = "bell" -> DBG_BELL [] c = "E" -> DBG_EOT
    [] c = "S" -> DBG_SOT     [] c = "{" -> DBG_LABEG
    [] c = "}" -> DBG_LAEND   [] c = "L" -> DBG_CLRL
    [] c = "I" -> DBG_CLRI    [] c = "A" -> DBG_CLRA
    [] c = "R" -> DBG_HRST    [] c = "r" -> DBG_SRST

IsSymbol(c) == c \in Symbols

(* Everything that is not a symbol is a comment. *)
Assemble(source) ==
  LET symbols == At(source, {i \in DOMAIN source : IsSymbol(source[i])})
  IN  [i \in DOMAIN symbols |-> SymbolToOpcode(symbols[i])]
=============================================================================
