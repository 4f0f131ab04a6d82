--------------------------- MODULE LogLevelParam ---------------------------
(***************************************************************************)
(* The log_level module parameter (src/vdo/sysfs.c): vdo_log_level_store   *)
(* copies the written string into a static 11-byte buffer, strips one      *)
(* trailing newline, and sets the UDS log level from the name;             *)
(* vdo_log_level_show prints the level's name.  Stores of one parameter    *)
(* are serialized by the kernel's parameter lock, so a store is one step.  *)
(*                                                                         *)
(* Strings are sequences of characters, because the length check, the     *)
(* copy and the newline test are about positions.  The byte in memory just *)
(* before the static buffer is modelled as `adjacent`: its value is not    *)
(* the program's to know, so it starts as any byte.                        *)
(***************************************************************************)
EXTENDS Naturals, Sequences

CONSTANTS
  Levels,      \* log priorities: a function from level to its name
  DefaultLevel,\* the priority an unknown name gives
  Inputs       \* strings written to the parameter

NUL == "NUL"
NL  == "\n"

BufSize == 11                   \* sizeof(internal_buf)
BufIndex == 0 .. BufSize - 1

(* The C string held in a buffer: its bytes up to the first NUL. *)
RECURSIVE CString(_, _)
CString(buf, i) ==
  IF i > BufSize - 1 \/ buf[i] = NUL THEN <<>>
  ELSE <<buf[i]>> \o CString(buf, i + 1)

(* uds_log_string_to_priority (logger.c, not in this tree): the level     *)
(* whose name the string is, else the default.                             *)
StringToPriority(s) ==
  IF \E l \in DOMAIN Levels : Levels[l] = s
  THEN CHOOSE l \in DOMAIN Levels : Levels[l] = s
  ELSE DefaultLevel

Bytes == {NUL, NL, "x"}   \* what the byte before the buffer may hold

VARIABLES
  internalBuf,  \* static char internal_buf[11]
  adjacent,     \* the byte before internal_buf
  logLevel,     \* the UDS log level
  lastStore,    \* the last store: its string and result
  stray         \* accesses outside internal_buf so far: "read", "write"

vars == <<internalBuf, adjacent, logLevel, lastStore, stray>>

Init ==
  /\ internalBuf = [i \in BufIndex |-> NUL]
  /\ adjacent \in Bytes
  /\ logLevel \in DOMAIN Levels
  /\ lastStore = [buf |-> <<>>, result |-> "none"]
  /\ stray = {}

(* if (internal_buf[n - 1] == '\n') internal_buf[n - 1] = '\000';  For    *)
(* n = 0 the index is -1: the byte before the buffer is read, and written *)
(* when it happens to be a newline.                                       *)
StripNewline(buf, n, before) ==
  IF n = 0
  THEN IF before = NL
       THEN [buf |-> buf, before |-> NUL, stray |-> {"read", "write"}]
       ELSE [buf |-> buf, before |-> before, stray |-> {"read"}]
  ELSE IF buf[n - 1] = NL
       THEN [buf |-> [buf EXCEPT ![n - 1] = NUL], before |-> before, stray |-> {}]
       ELSE [buf |-> buf, before |-> before, stray |-> {}]

(* vdo_log_level_store(buf): refuse more than 10 characters; otherwise    *)
(* clear the buffer, copy the string, strip a newline, set the level.     *)
VdoLogLevelStore(buf) ==
  LET n == Len(buf)
      copied == [i \in BufIndex |-> IF i < n THEN buf[i + 1] ELSE NUL]
      s == StripNewline(copied, n, adjacent)
  IN  IF n > 10
      THEN /\ lastStore' = [buf |-> buf, result |-> "einval"]
           /\ UNCHANGED <<internalBuf, adjacent, logLevel, stray>>
      ELSE /\ internalBuf' = s.buf
           /\ adjacent' = s.before
           /\ stray' = stray \cup s.stray
           /\ logLevel' = StringToPriority(CString(s.buf, 0))
           /\ lastStore' = [buf |-> buf, result |-> "success"]

(* vdo_log_level_show: the name of the current level, and a newline. *)
VdoLogLevelShow == Levels[logLevel] \o <<NL>>

Next == \E buf \in Inputs : VdoLogLevelStore(buf)

Spec == Init /\ [][Next]_vars

-----------------------------------------------------------------------------
(* vdo_log_level_store touches only internal_buf: no string the kernel    *)
(* hands it makes it read or write the byte before the buffer.            *)
StoreStaysInBuffer == stray = {}
=============================================================================
