------------------------------ MODULE MCScopes ------------------------------
(***************************************************************************)
(* The two scopes of src/libexpr/nixexpr.hh checked side by side: a       *)
(* StaticEnv filled, sorted and deduplicated, and the Formals of a lambda *)
(* pushed and sorted by the parser.  They share no state; each step moves *)
(* one of them.                                                            *)
(***************************************************************************)
EXTENDS Naturals

CONSTANTS EnvSymbols, MaxVars, MaxFormals

VARIABLES vars, bound, phase, formals, sorted

(* Five symbol ids. *)
FormalSymbols == 1..5

SE == INSTANCE StaticEnv WITH Symbols <- EnvSymbols
F  == INSTANCE Formals WITH Symbols <- FormalSymbols

allVars == <<vars, bound, phase, formals, sorted>>

Init == SE!Init /\ F!Init

Next ==
    \/ SE!Next /\ UNCHANGED <<formals, sorted>>
    \/ F!Next /\ UNCHANGED <<vars, bound, phase>>

Spec == Init /\ [][Next]_allVars

-----------------------------------------------------------------------------
(* StaticEnv holds names with displacements below MaxVars. *)
TypeOK == SE!TypeOK /\ F!TypeOK

(* After StaticEnv::sort() and deduplicate(), find() resolves every name *)
(* to the binding pushed last for it, and to end() a name never bound.   *)
LastBindingWins == SE!LastBindingWins

(* Once the parser sorted the formals, Formals::has(x) holds exactly for *)
(* the names among them.                                                  *)
HasMatchesMembership == F!HasMatchesMembership
=============================================================================
