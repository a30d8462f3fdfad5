------------------------------ MODULE StaticEnv ------------------------------
(***************************************************************************)
(* StaticEnv (src/libexpr/nixexpr.hh): the compile-time scope that maps a *)
(* variable name to its displacement.  Bindings are pushed in the order   *)
(* the evaluator adds them (vars.emplace_back, with displacements counting *)
(* up), then sort() orders them by name and deduplicate() drops all but   *)
(* one binding per name; find() is a binary search over the result.       *)
(* A symbol is a natural number: Symbol's operator< compares ids.         *)
(***************************************************************************)
EXTENDS Naturals, Sequences, SequencesExt, CxxAlgorithms

CONSTANTS
    Symbols,   \* the names bindings may use
    MaxVars    \* bindings pushed before the scope is sorted

VARIABLES
    vars,      \* StaticEnv::vars: a sequence of <<name, displacement>>
    bound,     \* history: every binding in the order it was pushed
    phase      \* "bind", then "sorted" after sort(), "dedup" after deduplicate()

seVars == <<vars, bound, phase>>

(* std::pair's operator< on <<Symbol, Displacement>>. *)
PairLess(a, b) == a[1] < b[1] \/ (a[1] = b[1] /\ a[2] < b[2])

(* find(name): lower_bound on <<name, 0>>; Len(v) + 1 is vars.end(). *)
Find(v, name) ==
    LET i == LowerBound(v, [p \in ToSet(v) |-> PairLess(p, <<name, 0>>)])
    IN IF i <= Len(v) /\ v[i][1] = name THEN i ELSE Len(v) + 1

(* A deduplicate that keeps the first binding of each run. *)
DedupKeepFirst(v) ==
    LET RECURSIVE Outer(_, _), Inner(_, _, _)
        Outer(out, jt) ==
            IF jt > Len(v) THEN out ELSE Inner(out, v[jt], jt + 1)
        Inner(out, it, jt) ==
            IF jt <= Len(v) /\ it[1] = v[jt][1]
               THEN Inner(out, it, jt + 1)
               ELSE Outer(Append(out, it), jt)
    IN Outer(<<>>, 1)

(* deduplicate(): it writes, jt reads; each run of equal names leaves     *)
(* its last element at it.                                                *)
Dedup(v) ==
    LET RECURSIVE Outer(_, _), Inner(_, _, _)
        Outer(out, jt) ==
            IF jt > Len(v) THEN out ELSE Inner(out, v[jt], jt + 1)
        Inner(out, it, jt) ==
            IF jt <= Len(v) /\ it[1] = v[jt][1]
               THEN Inner(out, v[jt], jt + 1)
               ELSE Outer(Append(out, it), jt)
    IN Outer(<<>>, 1)

Init ==
    /\ vars = <<>>
    /\ bound = <<>>
    /\ phase = "bind"

(* Displacements counted from 1 (++displ for displ++). *)
BindFromOne(s) ==
    /\ phase = "bind"
    /\ Len(vars) < MaxVars
    /\ vars' = Append(vars, <<s, Len(bound) + 1>>)
    /\ bound' = Append(bound, <<s, Len(bound) + 1>>)
    /\ UNCHANGED phase

(* vars.emplace_back(name, displ++) *)
Bind(s) ==
    /\ phase = "bind"
    /\ Len(vars) < MaxVars
    /\ vars' = Append(vars, <<s, Len(bound)>>)
    /\ bound' = Append(bound, <<s, Len(bound)>>)
    /\ UNCHANGED phase

(* sort(): std::stable_sort comparing names only. *)
Sort ==
    /\ phase = "bind"
    /\ vars' = StableSortBy(vars, [p \in ToSet(vars) |-> p[1]])
    /\ phase' = "sorted"
    /\ UNCHANGED bound

Deduplicate ==
    /\ phase = "sorted"
    /\ vars' = Dedup(vars)
    /\ phase' = "dedup"
    /\ UNCHANGED bound

Next ==
    \/ \E s \in Symbols : Bind(s)
    \/ Sort
    \/ Deduplicate

Spec == Init /\ [][Next]_seVars

-----------------------------------------------------------------------------
TypeOK ==
    /\ vars \in Seq(Symbols \X (0..MaxVars - 1))
    /\ bound \in Seq(Symbols \X (0..MaxVars - 1))
    /\ phase \in {"bind", "sorted", "dedup"}

(* After sort() and deduplicate(), find() resolves every name to the     *)
(* binding pushed last for it, and to end() a name never bound: a later *)
(* definition shadows an earlier one however the bindings were ordered, *)
(* which rests on stable_sort, on deduplicate keeping the last of a run *)
(* and on the binary search of find agreeing with both.                 *)
LastBindingWins ==
    phase = "dedup" =>
        \A s \in Symbols :
            LET last == SelectLastInSeq(bound, LAMBDA b : b[1] = s)
                i    == Find(vars, s)
            IN IF last = 0 THEN i = Len(vars) + 1
               ELSE i <= Len(vars) /\ vars[i] = bound[last]
=============================================================================
