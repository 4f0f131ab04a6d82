--------------------------- MODULE MCDumpOptions ---------------------------
(***************************************************************************)
(* Dump messages for TLC: argument lists of up to MaxArgs arguments, each  *)
(* an option name, the name with a character appended (accepted by the     *)
(* prefix match), the name less its last character, the name with an       *)
(* upper-case first letter, or the empty string.                           *)
(***************************************************************************)
EXTENDS DumpOptions

CONSTANT MaxArgs

Names == {OptionNames[j].name : j \in DOMAIN OptionNames}

UpperFirst(s) == [s EXCEPT ![1] = CHOOSE u \in DOMAIN LowerCase : LowerCase[u] = @]

MCArgs ==
  Names \cup {Append(n, "x") : n \in Names} \cup {SubSeq(n, 1, Len(n) - 1) : n \in Names}
  \cup {UpperFirst(n) : n \in Names} \cup {<<>>}

MCArgVectors == UNION {[1 .. k -> MCArgs] : k \in 0 .. MaxArgs}
=============================================================================
