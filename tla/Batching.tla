------------------------------ MODULE Batching ------------------------------
(***************************************************************************)
(* chunk_uploads (core/src/sync_rules.rs): the sizes of the uploads of a   *)
(* cycle are cut into consecutive half-open ranges <<start, end>> of       *)
(* zero-based indices, one batch request each.                             *)
(***************************************************************************)
EXTENDS Naturals, Sequences, SequencesExt

CONSTANTS
    BATCH_BYTE_BUDGET,   \* plaintext bytes per batch
    BATCH_MAX_OPS        \* operations per batch

ASSUME BatchAssumption == BATCH_BYTE_BUDGET \in Nat /\ BATCH_MAX_OPS \in Nat \ {0}

\* Slip: the operation limit is off by one.
chunk_step_OneMore(acc, size) ==
    LET full == /\ acc.index > acc.start
                /\ \/ acc.bytes + size > BATCH_BYTE_BUDGET
                   \/ acc.index - acc.start > BATCH_MAX_OPS
    IN  [batches |-> IF full THEN Append(acc.batches, <<acc.start, acc.index>>)
                     ELSE acc.batches,
         start   |-> IF full THEN acc.index ELSE acc.start,
         bytes   |-> (IF full THEN 0 ELSE acc.bytes) + size,
         index   |-> acc.index + 1]

\* One turn of the loop, for the zero-based `index` about to be added.
chunk_step(acc, size) ==
    LET full == /\ acc.index > acc.start
                /\ \/ acc.bytes + size > BATCH_BYTE_BUDGET
                   \/ acc.index - acc.start >= BATCH_MAX_OPS
    IN  [batches |-> IF full THEN Append(acc.batches, <<acc.start, acc.index>>)
                     ELSE acc.batches,
         start   |-> IF full THEN acc.index ELSE acc.start,
         bytes   |-> (IF full THEN 0 ELSE acc.bytes) + size,
         index   |-> acc.index + 1]

chunk_uploads(sizes) ==
    LET end == FoldLeft(chunk_step,
                        [batches |-> <<>>, start |-> 0, bytes |-> 0, index |-> 0],
                        sizes)
    IN  IF end.start < Len(sizes)
        THEN Append(end.batches, <<end.start, Len(sizes)>>)
        ELSE end.batches
=============================================================================
