------------------------------ MODULE MCRules ------------------------------
(* The pure rules of a cycle for TLC: ThreeWay on one path, where hashes are *)
(* model values since only equality matters, and chunk_uploads on every      *)
(* upload list up to a length, with sizes up to one over the budget.         *)
EXTENDS ThreeWay, Batching

CONSTANT MaxLen      \* bound: uploads of one cycle

\* The cut of one list, as the comment of chunk_uploads promises it:
\* consecutive batches cover every upload once; a batch keeps within both
\* limits unless it is one oversize file travelling alone; and a batch closes
\* only when the next file would not have fitted.
GreedyCover(sizes, b) ==
    LET n == Len(b)
        Bytes(from, to) == FoldFunctionOnSet(+, 0, sizes, from + 1 .. to)
    IN  /\ n = 0 <=> sizes = <<>>
        /\ n > 0 => b[1][1] = 0 /\ b[n][2] = Len(sizes)
        /\ \A i \in 1..n :
              /\ b[i][1] < b[i][2]
              /\ b[i][2] - b[i][1] <= BATCH_MAX_OPS
              /\ Bytes(b[i][1], b[i][2]) <= BATCH_BYTE_BUDGET \/ b[i][2] = b[i][1] + 1
        /\ \A i \in 1..n - 1 :
              /\ b[i][2] = b[i + 1][1]
              /\ \/ b[i][2] - b[i][1] = BATCH_MAX_OPS
                 \/ Bytes(b[i][1], b[i][2] + 1) > BATCH_BYTE_BUDGET

\* chunk_uploads cuts every list of up to MaxLen uploads into such batches.
ChunksAreGreedyCover ==
    \A n \in 0..MaxLen : \A sizes \in [1..n -> 0..BATCH_BYTE_BUDGET + 1] :
        GreedyCover(sizes, chunk_uploads(sizes))
============================================================================
