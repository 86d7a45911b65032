-------------------------------- MODULE Pow --------------------------------
(***************************************************************************)
(* t546_to_t547 (src/ricq-core/src/command/wtlogin/mod.rs): the proof-of- *)
(* work solver. A challenge is its header fields (a, c, e, f and cpy are   *)
(* copied through unchanged and stand together as `rest`), the type byte,  *)
(* the ok flag, the source integer src, the target hash tgt and the byte   *)
(* length of tgt. SHA-256 is an arbitrary function H from integers to a    *)
(* small set of digests; its domain 0..Max(DOMAIN H) bounds the search, and *)
(* a search that runs off its end is the unbounded loop of the code.        *)
(* The elapsed time elp is wall-clock and is left out.                     *)
(***************************************************************************)
EXTENDS Naturals, Sequences

\* Mutant: the loop increments before it hashes, so src itself is never tried.
RECURSIVE SearchIncrementFirst(_, _, _, _)
SearchIncrementFirst(H, tgt, tmp, cnt) ==
    IF tmp + 1 \notin DOMAIN H THEN [found |-> FALSE, dst |-> tmp, cnt |-> cnt]
    ELSE IF H[tmp + 1] = tgt THEN [found |-> TRUE, dst |-> tmp + 1, cnt |-> cnt + 1]
    ELSE SearchIncrementFirst(H, tgt, tmp + 1, cnt + 1)

\* The while loop: tmp from src upwards until sha256(tmp) == tgt, counting
\* the increments in cnt.
RECURSIVE Search(_, _, _, _)
Search(H, tgt, tmp, cnt) ==
    IF H[tmp] = tgt THEN [found |-> TRUE, dst |-> tmp, cnt |-> cnt]
    ELSE IF tmp + 1 \notin DOMAIN H THEN [found |-> FALSE, dst |-> tmp, cnt |-> cnt]
    ELSE Search(H, tgt, tmp + 1, cnt + 1)

\* The output: the header with its ok flag, and the extension written when
\* ok is set (dst as the bytes of one integer, or none; cnt); halts is
\* FALSE when the loop never ends.
Output(hdr, ext) == [hdr |-> hdr, ext |-> ext, halts |-> TRUE]
Diverges(ch) == [hdr |-> ch, ext |-> <<>>, halts |-> FALSE]

\* t546_to_t547: solve when typ == 2 && tgt.len() == 32 (ok becomes true),
\* else pass the header through with ok as read; the extension (dst, elp,
\* cnt) is written whenever ok is set, with an empty dst and zero counts
\* when nothing was solved.
T546ToT547(ch, H) ==
    IF ch.typ = 2 /\ ch.tgtLen = 32
    THEN LET r == Search(H, ch.tgt, ch.src, 0) IN
         IF r.found
         THEN Output([ch EXCEPT !.ok = TRUE], <<[dst |-> <<r.dst>>, cnt |-> r.cnt]>>)
         ELSE Diverges(ch)
    ELSE Output(ch, IF ch.ok THEN <<[dst |-> <<>>, cnt |-> 0]>> ELSE <<>>)

(***************************************************************************)
(* The solver the spec describes (4.3 and 8): for type 2 with a 32-byte    *)
(* target, the smallest value at or above src whose hash is the target,   *)
(* with the number of steps from src; no such value, no answer. Any other *)
(* challenge is returned unchanged in its fields, with the success flag   *)
(* false and no solved extension.                                         *)
(***************************************************************************)
SpecSolve(ch, H) ==
    LET P == {v \in DOMAIN H : v >= ch.src /\ H[v] = ch.tgt} IN
    IF ch.typ = 2 /\ ch.tgtLen = 32
    THEN IF P = {} THEN Diverges(ch)
         ELSE LET v == CHOOSE v \in P : \A w \in P : v <= w IN
              Output([ch EXCEPT !.ok = TRUE], <<[dst |-> <<v>>, cnt |-> v - ch.src]>>)
    ELSE Output([ch EXCEPT !.ok = FALSE], <<>>)
=============================================================================
