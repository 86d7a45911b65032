---------------------------- MODULE GroupMessage ----------------------------
(***************************************************************************)
(* Reassembly of a multi-part group message: the two parse_group_message *)
(* functions of src/ricq/src/client/processor/online_push.rs. A part is   *)
(* its pkg_index, its seq (standing for seq and rand), its scalar         *)
(* metadata (group code, name, card, sender, time, taken together) and    *)
(* its elems, each an Elem whose optional inner elem may be None.          *)
(***************************************************************************)
EXTENDS Naturals, Sequences, SequencesExt

\* An Elem of a part: where it came from, and whether its `elem` is Some.
Elem == [src : Nat, some : BOOLEAN]

\* The scalar metadata of an empty message: unwrap_or_default() / 0 / "".
DefaultMeta == 0

\* One step of a stable sort: p goes after every part with an index no
\* larger than its own.
RECURSIVE InsertByIndex(_, _)
InsertByIndex(p, s) ==
    IF s = <<>> \/ p.pkg_index < Head(s).pkg_index THEN <<p>> \o s
    ELSE <<Head(s)>> \o InsertByIndex(p, Tail(s))

\* Mutant: the parts are not sorted before they are joined.
SortByPkgIndexMissing(parts) == parts

\* parts.sort_by(|a, b| a.pkg_index.cmp(&b.pkg_index)): a stable sort.
RECURSIVE SortByPkgIndex(_)
SortByPkgIndex(parts) ==
    IF parts = <<>> THEN <<>>
    ELSE InsertByIndex(Last(parts), SortByPkgIndex(Front(parts)))

\* What both functions take from the sorted parts: the seqs in order and
\* the scalar metadata of the first part (the default with no parts).
Seqs(s) == [i \in 1..Len(s) |-> s[i].seq]
FirstMeta(s) == IF s = <<>> THEN DefaultMeta ELSE s[1].meta

\* The first parse_group_message: first()/first_mut() metadata, and
\* elements.extend(p.elems.into_iter().filter_map(|e| e.elem)).
ParseGroupMessageFiltered(parts) ==
    LET s == SortByPkgIndex(parts) IN
    [seqs |-> Seqs(s), meta |-> FirstMeta(s),
     elements |-> FlattenSeq([i \in 1..Len(s) |->
                     SelectSeq(s[i].elems, LAMBDA e : e.some)])]

\* The second parse_group_message: metadata from the part the loop meets
\* first (is_first_part), and elements.append(&mut p.elems) of every Elem.
ParseGroupMessage(parts) ==
    LET s == SortByPkgIndex(parts) IN
    [seqs |-> Seqs(s), meta |-> FirstMeta(s),
     elements |-> FlattenSeq([i \in 1..Len(s) |-> s[i].elems])]

(***************************************************************************)
(* The reassembly the spec describes, without a sorting algorithm: the   *)
(* arrangement of the parts in which their indices increase, its elements *)
(* concatenated, and the metadata of the part whose index is 0.           *)
(***************************************************************************)
SpecGroupMessage(parts) ==
    LET P == {parts[i] : i \in 1..Len(parts)}
        r == CHOOSE r \in SetToSeqs(P) :
                 \A i \in 1..(Len(r) - 1) : r[i].pkg_index < r[i + 1].pkg_index
        zero == {p \in P : p.pkg_index = 0}
    IN [seqs |-> Seqs(r),
        meta |-> IF zero = {} THEN DefaultMeta ELSE (CHOOSE p \in zero : TRUE).meta,
        elements |-> FlattenSeq([i \in 1..Len(r) |-> r[i].elems])]

\* The complete part sets of a message of n parts (indices 0..n-1), part k
\* carrying seq k, metadata k and elems shaped like one of Shapes (a
\* sequence of Some/None flags), in every order of arrival.
PartArrivals(n, Shapes) ==
    LET Part(k, sh) == [pkg_index |-> k, seq |-> k, meta |-> k,
                        elems |-> [j \in DOMAIN sh |-> [src |-> k, some |-> sh[j]]]]
        Sets == {[k \in 0..(n - 1) |-> Part(k, sh[k])] : sh \in [0..(n - 1) -> Shapes]}
    IN {[i \in 1..n |-> ps[order[i]]] : ps \in Sets, order \in SetToSeqs(0..(n - 1))}
=============================================================================
