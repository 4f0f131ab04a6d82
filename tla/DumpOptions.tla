---------------------------- MODULE DumpOptions ----------------------------
(***************************************************************************)
(* The dump message of the kernel layer (src/vdo/kernel/dump.c):           *)
(* parse_dump_options turns the arguments of a "dump" message into a word  *)
(* of flags, do_dump dumps what the flags select, vdo_dump_all dumps       *)
(* everything.                                                             *)
(*                                                                         *)
(* An argument is a C string, kept as a sequence of characters, because    *)
(* the matching is by prefix: is_arg_string compares strlen(option)        *)
(* characters of the argument, ignoring case.  The logging and the dumps   *)
(* of the queues and pools themselves are left out; do_dump is the set of  *)
(* things it dumps.                                                        *)
(***************************************************************************)
EXTENDS Naturals, Sequences, Bitwise, TLC
LOCAL SX == INSTANCE SequencesExt

(* enum dumpOptions: bit numbers. *)
ShowAlbireoQueue == 0
ShowBioAckQueue  == 1
ShowBioQueue     == 2
ShowCpuQueues    == 3
ShowRequestQueue == 4
ShowVioPool      == 5
ShowVdoStatus    == 6
SkipDefault      == 7

Flag(bit) == 2 ^ bit

(* The flag groups of the anonymous enum. *)
FlagsAllPools    == Flag(ShowVioPool)
FlagsAllQueues   == Flag(ShowRequestQueue) | Flag(ShowAlbireoQueue)
                      | Flag(ShowBioAckQueue) | Flag(ShowBioQueue)
                      | Flag(ShowCpuQueues)
FlagsAllThreads  == FlagsAllQueues
DefaultDumpFlags == FlagsAllThreads | Flag(ShowVdoStatus)

(* The flag word is an unsigned int, of which do_dump reads bits 0..7 only;  *)
(* its width is cut to 16 bits (TLC's integers are signed 32-bit), which  *)
(* keeps ~0 a word with bits beyond every flag.                           *)
WordBits == 16

(* ~0 as an unsigned int. *)
AllOnes == 2 ^ WordBits - 1

(* An option name that selects one thing overrides the defaults. *)
Only(bit) == Flag(SkipDefault) | Flag(bit)

(* option_names[], in table order; names are sequences of characters. *)
OptionNames == <<
  [name |-> <<"d","e","d","u","p","e">>,              flags |-> Only(ShowAlbireoQueue)],
  [name |-> <<"d","e","d","u","p","e","q">>,          flags |-> Only(ShowAlbireoQueue)],
  [name |-> <<"k","v","d","o","d","e","d","u","p","e","q">>, flags |-> Only(ShowAlbireoQueue)],
  [name |-> <<"b","i","o","a","c","k">>,              flags |-> Only(ShowBioAckQueue)],
  [name |-> <<"k","v","d","o","b","i","o","a","c","k","q">>, flags |-> Only(ShowBioAckQueue)],
  [name |-> <<"b","i","o","a","c","k","q">>,          flags |-> Only(ShowBioAckQueue)],
  [name |-> <<"b","i","o">>,                          flags |-> Only(ShowBioQueue)],
  [name |-> <<"k","v","d","o","b","i","o","q">>,      flags |-> Only(ShowBioQueue)],
  [name |-> <<"b","i","o","q">>,                      flags |-> Only(ShowBioQueue)],
  [name |-> <<"c","p","u">>,                          flags |-> Only(ShowCpuQueues)],
  [name |-> <<"k","v","d","o","c","p","u","q">>,      flags |-> Only(ShowCpuQueues)],
  [name |-> <<"c","p","u","q">>,                      flags |-> Only(ShowCpuQueues)],
  [name |-> <<"r","e","q","u","e","s","t">>,          flags |-> Only(ShowRequestQueue)],
  [name |-> <<"k","v","d","o","r","e","q","q">>,      flags |-> Only(ShowRequestQueue)],
  [name |-> <<"r","e","q","q">>,                      flags |-> Only(ShowRequestQueue)],
  [name |-> <<"v","i","o","p","o","o","l">>,          flags |-> Only(ShowVioPool)],
  [name |-> <<"v","d","o">>,                          flags |-> Only(ShowVdoStatus)],
  [name |-> <<"p","o","o","l","s">>,   flags |-> Flag(SkipDefault) | FlagsAllPools],
  [name |-> <<"q","u","e","u","e","s">>, flags |-> Flag(SkipDefault) | FlagsAllQueues],
  [name |-> <<"t","h","r","e","a","d","s">>, flags |-> Flag(SkipDefault) | FlagsAllThreads],
  [name |-> <<"d","e","f","a","u","l","t">>, flags |-> Flag(SkipDefault) | DefaultDumpFlags],
  [name |-> <<"a","l","l">>,                          flags |-> AllOnes]
>>

(* tolower on the upper-case letters the arguments use (the first       *)
(* letters of the option names), as strncasecmp applies it to both.       *)
LowerCase == ("A" :> "a") @@ ("B" :> "b") @@ ("C" :> "c") @@ ("D" :> "d")
             @@ ("K" :> "k") @@ ("P" :> "p") @@ ("Q" :> "q") @@ ("R" :> "r")
             @@ ("T" :> "t") @@ ("V" :> "v")
ToLower(c) == IF c \in DOMAIN LowerCase THEN LowerCase[c] ELSE c
FoldCase(s) == [i \in DOMAIN s |-> ToLower(s[i])]

(* is_arg_string: strncasecmp(arg, option, strlen(option)) == 0, i.e. the *)
(* option is a prefix of the argument, ignoring case (the argument's NUL  *)
(* ends the comparison early when the argument is shorter).               *)
IsArgString(arg, option) == SX!IsPrefix(FoldCase(option), FoldCase(arg))

(* A search that does not break at the first match: the last one wins. *)
FirstMatchWithoutBreak(arg, table) ==
  LET js == {j \in DOMAIN table : IsArgString(arg, table[j].name)}
  IN  IF js = {} THEN 0 ELSE SX!Max(js)

(* The index of the first table entry matching arg, or 0 (j reaching      *)
(* COUNT_OF(option_names) in the code).                                   *)
FirstMatch(arg, table) ==
  LET js == {j \in DOMAIN table : IsArgString(arg, table[j].name)}
  IN  IF js = {} THEN 0 ELSE SX!Min(js)

(* parse_dump_options over argv[1..]: [ok, flags].  Every argument ORs in *)
(* the flags of its first matching option; an unknown one makes the call  *)
(* fail with -EINVAL after the loop; without FLAG_SKIP_DEFAULT the default *)
(* flags are added.                                                        *)
ParseDumpOptionsWith(args, table) ==
  LET matches == [i \in DOMAIN args |-> FirstMatch(args[i], table)]
      ored == SX!FoldLeft(LAMBDA acc, j : IF j = 0 THEN acc ELSE acc | table[j].flags,
                          0, matches)
  IN  IF \E i \in DOMAIN args : matches[i] = 0
      THEN [ok |-> FALSE, flags |-> 0]
      ELSE [ok |-> TRUE,
            flags |-> IF ored & Flag(SkipDefault) = 0
                      THEN ored | DefaultDumpFlags ELSE ored]

ParseDumpOptions(args) == ParseDumpOptionsWith(args, OptionNames)

(* Selected(flags, bit): (dump_options_requested & FLAG) != 0. *)
Selected(flags, bit) == flags & Flag(bit) # 0

(* What do_dump shows whatever the flags: the limiter and bio counts, the *)
(* dedupe index, the data vio pool and the memory usage.                  *)
AlwaysDumped == {"limiterCounts", "dedupeIndex", "vioPool", "memoryUsage"}

(* The extra things do_dump shows, each with the bit that selects it: the *)
(* request, bio and cpu queues, the vdo status, the dedupe index's queue   *)
(* and the busy entries of the vio pool.                                   *)
DumpedFor == [requestQueue |-> ShowRequestQueue, bioQueue |-> ShowBioQueue,
              cpuQueue |-> ShowCpuQueues, vdoStatus |-> ShowVdoStatus,
              dedupeQueue |-> ShowAlbireoQueue, vioPoolEntries |-> ShowVioPool]

(* do_dump: what is dumped.  The bio-ack queue exists only when the layer *)
(* uses one.                                                              *)
DoDump(flags, useBioAckQueue) ==
  AlwaysDumped
  \cup {item \in DOMAIN DumpedFor : Selected(flags, DumpedFor[item])}
  \cup (IF useBioAckQueue /\ Selected(flags, ShowBioAckQueue)
        THEN {"bioAckQueue"} ELSE {})

-----------------------------------------------------------------------------
CONSTANT ArgVectors   \* the argument lists (argv[1..]) a dump message may carry

VARIABLES
  argv,        \* the message's arguments
  useBioAck,   \* useBioAckQueue(layer)
  lastCall,    \* "none", "vdoDump" or "vdoDumpAll"
  result,      \* the return: "success" (0) or "einval" (-EINVAL)
  requested,   \* dump_options_requested
  dumped       \* what the dump showed

vars == <<argv, useBioAck, lastCall, result, requested, dumped>>

Init ==
  /\ argv \in ArgVectors
  /\ useBioAck \in BOOLEAN
  /\ lastCall = "none"
  /\ result = "none"
  /\ requested = 0
  /\ dumped = {}

(* vdo_dump: parse the arguments; on -EINVAL nothing is dumped. *)
VdoDump ==
  LET parsed == ParseDumpOptions(argv)
  IN  /\ lastCall = "none"
      /\ lastCall' = "vdoDump"
      /\ result' = IF parsed.ok THEN "success" ELSE "einval"
      /\ requested' = parsed.flags
      /\ dumped' = IF parsed.ok THEN DoDump(parsed.flags, useBioAck) ELSE {}
      /\ UNCHANGED <<argv, useBioAck>>

(* vdo_dump_all: do_dump(layer, ~0, why). *)
VdoDumpAll ==
  /\ lastCall = "none"
  /\ lastCall' = "vdoDumpAll"
  /\ result' = "success"
  /\ requested' = AllOnes
  /\ dumped' = DoDump(AllOnes, useBioAck)
  /\ UNCHANGED <<argv, useBioAck>>

Next == VdoDump \/ VdoDumpAll

Spec == Init /\ [][Next]_vars

-----------------------------------------------------------------------------

(* The reference meaning of a dump message: an argument names the most   *)
(* specific option it starts with (ignoring case); the message is refused *)
(* if an argument names none; the defaults are shown unless an argument   *)
(* selected something.  Flag words are read as sets of bits.              *)
Bits(word) == {b \in 0 .. WordBits - 1 : (word \div 2 ^ b) % 2 = 1}
MostSpecific(arg) ==
  LET ms == {j \in DOMAIN OptionNames : IsArgString(arg, OptionNames[j].name)}
  IN  CHOOSE j \in ms : \A k \in ms : Len(OptionNames[k].name) <= Len(OptionNames[j].name)
Known(arg) == \E j \in DOMAIN OptionNames : IsArgString(arg, OptionNames[j].name)
NamedBits(args) == UNION {Bits(OptionNames[MostSpecific(args[i])].flags) : i \in DOMAIN args}
RequestedBits(args) ==
  IF SkipDefault \in NamedBits(args) THEN NamedBits(args)
  ELSE NamedBits(args) \cup Bits(DefaultDumpFlags)

(* A dump message is refused exactly when one of its arguments is no     *)
(* option name, and otherwise dumps exactly the queues, pools and status  *)
(* its most specific option names ask for: parse_dump_options takes the   *)
(* first match in table order, so a name listed after a shorter name it   *)
(* extends (bio, bioack) would never be reached and would select the      *)
(* wrong queue.                                                           *)
DumpMatchesRequest ==
  lastCall = "vdoDump" =>
    IF \A i \in DOMAIN argv : Known(argv[i])
    THEN /\ result = "success"
         /\ dumped = AlwaysDumped
                      \cup {item \in DOMAIN DumpedFor :
                             DumpedFor[item] \in RequestedBits(argv)}
                      \cup (IF useBioAck /\ ShowBioAckQueue \in RequestedBits(argv)
                            THEN {"bioAckQueue"} ELSE {})
    ELSE result = "einval" /\ dumped = {}
=============================================================================
