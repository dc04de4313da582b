----------------------------- MODULE MCFfiRuntime -----------------------------
(* Three predicates: C++ looks for the symbol of the first only, and the last *)
(* throws on a negative answer.  The stubs may lack a symbol or nts_ffi.ml a  *)
(* callback.                                                                  *)
EXTENDS FfiRuntime

MCMethods == {"filtered", "naive", "edge"}
MCRequiring == {"filtered"}
MCThrowing == {"edge"}

\* The library as it is built.
Built == [loads |-> TRUE, abi |-> 1, symbols |-> Symbols, registered |-> MCMethods]
MCLibraries ==
  {Built, [Built EXCEPT !.abi = 2],
   [Built EXCEPT !.abi = 2, !.symbols = Symbols \ {"naive"}],
   [Built EXCEPT !.loads = FALSE, !.symbols = {}, !.registered = {}]}
  \cup {[Built EXCEPT !.symbols = Symbols \ {x}] : x \in Symbols}
  \cup {[Built EXCEPT !.registered = MCMethods \ {x}] : x \in MCMethods}
=============================================================================
