------------------------------- MODULE Formals -------------------------------
(***************************************************************************)
(* Formals (src/libexpr/nixexpr.hh): the formal arguments of a lambda     *)
(* that destructures an attribute set.  has() is a binary search that     *)
(* assumes the formals are sorted by Symbol id.  lexicographicOrder()     *)
(* (display order) changes no state and is not modelled.                 *)
(*                                                                         *)
(* The parser, which is not in this repository, pushes the formals as    *)
(* written, rejects a duplicate name and then sorts them by id: the two  *)
(* actions below stand for it.                                           *)
(***************************************************************************)
EXTENDS Naturals, Sequences, SequencesExt, CxxAlgorithms

CONSTANTS
    Symbols,      \* symbol ids
    MaxFormals    \* formals of one lambda

VARIABLES
    formals,   \* Formals::formals, by name
    sorted     \* the parser has sorted them

fVars == <<formals, sorted>>

(* Symbol's operator<, which compares ids, as a sort key. *)
ById == [f \in Symbols |-> f]

(* has() without the name check: end() is the only miss. *)
HasNoNameCheck(fs, arg) ==
    LET it == LowerBound(fs, [f \in Symbols |-> f < arg])
    IN it <= Len(fs)

(* has(arg): lower_bound with f.name < sym, then compare the name found. *)
Has(fs, arg) ==
    LET it == LowerBound(fs, [f \in Symbols |-> f < arg])
    IN it <= Len(fs) /\ fs[it] = arg

Init ==
    /\ formals = <<>>
    /\ sorted = FALSE

AddFormal(s) ==
    /\ ~sorted
    /\ Len(formals) < MaxFormals
    /\ s \notin ToSet(formals)
    /\ formals' = Append(formals, s)
    /\ UNCHANGED sorted

SortFormals ==
    /\ ~sorted
    /\ formals' = StableSortBy(formals, ById)
    /\ sorted' = TRUE

Next == (\E s \in Symbols : AddFormal(s)) \/ SortFormals

Spec == Init /\ [][Next]_fVars

-----------------------------------------------------------------------------
TypeOK ==
    /\ formals \in Seq(Symbols)
    /\ sorted \in BOOLEAN

(* Once the formals are sorted, has(x) holds exactly for the names among *)
(* them: the binary search over ids misses none and finds no stranger.   *)
HasMatchesMembership ==
    sorted => \A x \in Symbols : Has(formals, x) <=> x \in ToSet(formals)
=============================================================================
