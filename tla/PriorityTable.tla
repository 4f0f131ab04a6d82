---------------------------- MODULE PriorityTable ----------------------------
(***************************************************************************)
(* The bucketed priority table the block allocator keeps its slabs in      *)
(* (priority-table.c is not part of this tree; modelled from spec 4.1).   *)
(* A table is a function from priority 0..max to the FIFO sequence of the  *)
(* entries in that bucket.                                                 *)
(***************************************************************************)
LOCAL INSTANCE Naturals
LOCAL INSTANCE Sequences
LOCAL INSTANCE FiniteSets

(* make_priority_table(max_priority): every bucket empty. *)
MakePriorityTable(maxPriority) == [p \in 0 .. maxPriority |-> <<>>]

(* priority_table_enqueue: append at the tail of the bucket (FIFO ties). *)
PriorityTableEnqueue(table, priority, entry) ==
  [table EXCEPT ![priority] = Append(@, entry)]

(* is_priority_table_empty *)
IsPriorityTableEmpty(table) == \A p \in DOMAIN table : table[p] = <<>>

(* The highest non-empty bucket of a non-empty table. *)
HighestPriority(table) ==
  CHOOSE p \in DOMAIN table :
     /\ table[p] # <<>>
     /\ \A q \in DOMAIN table : table[q] # <<>> => q <= p

(* priority_table_dequeue: the head of the highest non-empty bucket, and *)
(* the table without it.                                                 *)
PriorityTableDequeue(table) ==
  LET p == HighestPriority(table)
  IN  [entry |-> Head(table[p]),
       table |-> [table EXCEPT ![p] = Tail(@)]]

(* priority_table_remove: unlink an entry wherever it is. *)
PriorityTableRemove(table, entry) ==
  [p \in DOMAIN table |-> SelectSeq(table[p], LAMBDA e : e # entry)]

(* The set of entries in the table. *)
TableEntries(table) ==
  UNION {{table[p][i] : i \in DOMAIN table[p]} : p \in DOMAIN table}
=============================================================================
