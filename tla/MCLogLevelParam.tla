-------------------------- MODULE MCLogLevelParam --------------------------
(***************************************************************************)
(* Four log levels with names of 4, 5, 7 and 9 characters (the logger's    *)
(* table is in logger.c, not in this tree); the 9-character name is        *)
(* the longest that fits with a newline.  The strings written: each        *)
(* name with and without a newline, a bare newline, the empty string, a    *)
(* name of 10 characters and one of 11.                                    *)
(***************************************************************************)
EXTENDS LogLevelParam

MCLevels ==
  [info      |-> <<"I", "N", "F", "O">>,
   debug     |-> <<"D", "E", "B", "U", "G">>,
   warning   |-> <<"W", "A", "R", "N", "I", "N", "G">>,
   emergency |-> <<"E", "M", "E", "R", "G", "E", "N", "C", "Y">>]

MCInputs ==
  {MCLevels[l] : l \in DOMAIN MCLevels}
  \cup {MCLevels[l] \o <<NL>> : l \in DOMAIN MCLevels}
  \cup {<<NL>>, <<>>,
        MCLevels.emergency \o <<"x">>,
        MCLevels.emergency \o <<"x", NL>>}
=============================================================================
