---------------------------- MODULE CxxAlgorithms ----------------------------
(***************************************************************************)
(* The two standard-library algorithms nixexpr.hh builds its scopes on,   *)
(* over TLA+ sequences (index 1 is begin(), Len(s) + 1 is end()).         *)
(*                                                                         *)
(* LowerBound follows libstdc++'s binary search step for step, so it also *)
(* gives the answer the code gets when its input is not sorted.           *)
(* StableSortBy is std::stable_sort under a strict weak order on keys.    *)
(***************************************************************************)
EXTENDS Naturals, Sequences

(* std::lower_bound(first, last, value, comp) where less[x] is            *)
(* comp(x, value): halve [first, first + len) until it is empty.           *)
LowerBound(s, less) ==
    LET RECURSIVE Search(_, _)
        Search(first, len) ==
            IF len = 0 THEN first
            ELSE LET half   == len \div 2
                     middle == first + half
                 IN IF less[s[middle]]
                       THEN Search(middle + 1, len - half - 1)
                       ELSE Search(first, half)
    IN Search(1, Len(s))

(* std::stable_sort with comp(a, b) == key[a] < key[b]: elements with    *)
(* equal keys keep their relative order.  Insertion from the back keeps  *)
(* each new element after every element whose key is not greater.       *)
StableSortBy(s, key) ==
    LET RECURSIVE Insert(_, _), Sort(_)
        Insert(sorted, x) ==
            IF sorted = <<>> \/ ~(key[x] < key[sorted[Len(sorted)]])
               THEN Append(sorted, x)
               ELSE Append(Insert(SubSeq(sorted, 1, Len(sorted) - 1), x),
                           sorted[Len(sorted)])
        Sort(rest) ==
            IF rest = <<>> THEN <<>>
            ELSE Insert(Sort(SubSeq(rest, 1, Len(rest) - 1)), rest[Len(rest)])
    IN Sort(s)
=============================================================================
