------------------------------ MODULE FfiRuntime ------------------------------
(***************************************************************************)
(* Threads of one process that call libntsrocq through one of its bindings *)
(* (oracle/csharp/RocqNative.cs, java/.../RocqNative.java,                 *)
(* cpp/RocqNative.hpp).  The first use of the class loads the library,     *)
(* boots the OCaml runtime (nts_ffi_stubs.c) and compares ABI versions;    *)
(* each call then takes the gate, asks whether the library is available    *)
(* and enters the stub.                                                    *)
(***************************************************************************)
EXTENDS Integers, FiniteSets

CONSTANTS
  Threads,    \* threads of the process
  None,       \* no thread
  Methods,    \* methods of the binding that call a predicate
  Requiring,  \* those of them that the C# binding guards with Require()
  Throwing,   \* those that take a negative answer for an error (edgeInResult)
  Languages,  \* the bindings this instance has
  Libraries,  \* what the loader may find: [loads, abi, symbols, registered],
              \* registered: the methods whose callback nts_ffi.ml registers
  MaxCalls    \* bound: calls a thread makes

Checked == {"init", "abi", "filtered"}
AllMethods == Methods \cup {"abiVersion"}
Symbols == Methods \cup {"init", "abi"}

ASSUME ConstantsAssumption ==
  /\ None \notin Threads
  /\ "filtered" \in Methods
  /\ "abiVersion" \notin Methods
  /\ Languages \subseteq {"java", "cpp", "csharp"}
  /\ Libraries \subseteq [loads : BOOLEAN, abi : Nat, symbols : SUBSET Symbols,
                    registered : SUBSET Methods]
  /\ MaxCalls \in Nat

ExpectedAbi == 1

VARIABLES
  lang,      \* the binding
  lib,       \* the library the loader finds
  class,     \* the class: "untouched", "running" its initialiser, "ready", "failed"
  initer,    \* the thread that initialises it, or None
  ok,        \* AVAILABLE, ok_, Available
  gate,      \* the thread that holds the gate, or None
  started,   \* nts_rocq_started
  runtime,   \* the OCaml runtime: "down", "booting", "up"
  crashed,   \* the process has died
  pc,        \* pc[t]: what thread t does next
  method,    \* method[t]: the method it is in
  left,      \* left[t]: calls it may still make
  result     \* result[t]: what its last call came to: nothing yet, a value, a
             \* refusal, or what the stub says for want of a callback

vars == <<lang, lib, class, initer, ok, gate, started, runtime, crashed, pc,
          method, left, result>>
fixed == <<lang, lib>>
calls == <<method, left, result>>

Init ==
  /\ lang \in Languages
  /\ lib \in Libraries
  /\ class = "untouched"
  /\ initer = None
  /\ ok = FALSE
  /\ gate = None
  /\ started = FALSE
  /\ runtime = "down"
  /\ crashed = FALSE
  /\ pc = [t \in Threads |-> "idle"]
  /\ method = [t \in Threads |-> "abiVersion"]
  /\ left = [t \in Threads |-> MaxCalls]
  /\ result = [t \in Threads |-> "none"]

Goto(t, there) == pc' = [pc EXCEPT ![t] = there]

\* Bug: only the filtered predicate is serialised.
Gated_Filtered(m) == m = "filtered"

\* abiVersion takes no gate.
Gated(m) == m # "abiVersion"

Body(m) == IF Gated(m) THEN "want" ELSE "require"

-----------------------------------------------------------------------------
(* The class and its initialiser *)

\* A caller of a class that is being initialised waits for it: the JVM, the
\* CLR and a C++ function-local static all see to that.
Begin(t, m) ==
  /\ pc[t] = "idle"
  /\ m = "abiVersion" => lang # "csharp"
  /\ m \in Throwing => lang # "java"
  /\ left[t] > 0
  /\ method' = [method EXCEPT ![t] = m]
  /\ left' = [left EXCEPT ![t] = @ - 1]
  /\ \/ /\ class = "untouched"
        /\ class' = "running"
        /\ initer' = t
        /\ Goto(t, "load")
        /\ UNCHANGED result
     \/ /\ class = "ready"
        /\ Goto(t, Body(m))
        /\ UNCHANGED <<class, initer, result>>
     \/ /\ class = "failed"
        /\ result' = [result EXCEPT ![t] = "refused"]
        /\ UNCHANGED <<class, initer, pc>>
  /\ UNCHANGED <<fixed, ok, gate, started, runtime, crashed>>

\* The class is initialised, the thread goes on with its own call.
Initialised(t, available) ==
  /\ class' = "ready"
  /\ ok' = available
  /\ Goto(t, Body(method[t]))
  /\ UNCHANGED result

\* EntryPointNotFoundException is not caught: the type cannot be used.
TypeFails(t) ==
  /\ class' = "failed"
  /\ result' = [result EXCEPT ![t] = "refused"]
  /\ Goto(t, "idle")
  /\ UNCHANGED ok

Loadable == lib.loads /\ (lang = "cpp" => Checked \subseteq lib.symbols)

Load(t) ==
  /\ pc[t] = "load"
  /\ \/ /\ Loadable
        /\ "init" \in lib.symbols
        /\ Goto(t, "check")
        /\ UNCHANGED <<class, ok, result>>
     \/ /\ ~Loadable \/ (lang = "java" /\ "init" \notin lib.symbols)
        /\ Initialised(t, FALSE)
     \/ /\ lang = "csharp" /\ lib.loads /\ "init" \notin lib.symbols
        /\ TypeFails(t)
  /\ UNCHANGED <<fixed, initer, gate, started, runtime, crashed, method, left>>

\* Bug: the ABI of the library is asked for and not compared.
Abi_AnyVersion(t) ==
  /\ pc[t] = "abi"
  /\ \/ /\ "abi" \in lib.symbols
        /\ Initialised(t, TRUE)
     \/ /\ lang = "java" /\ "abi" \notin lib.symbols
        /\ Initialised(t, FALSE)
     \/ /\ lang = "csharp" /\ "abi" \notin lib.symbols
        /\ TypeFails(t)
  /\ UNCHANGED <<fixed, initer, gate, started, runtime, crashed, method, left>>

Abi(t) ==
  /\ pc[t] = "abi"
  /\ \/ /\ "abi" \in lib.symbols
        /\ Initialised(t, lib.abi = ExpectedAbi)
     \/ /\ lang = "java" /\ "abi" \notin lib.symbols
        /\ Initialised(t, FALSE)
     \/ /\ lang = "csharp" /\ "abi" \notin lib.symbols
        /\ TypeFails(t)
  /\ UNCHANGED <<fixed, initer, gate, started, runtime, crashed, method, left>>

-----------------------------------------------------------------------------
(* nts_rocq_init, called by the initialiser and by every stub *)

ReturnTo == IF class = "running" THEN "abi" ELSE "callback"

\* Test the flag; caml_startup takes a while, and the flag is set after it.
CheckStarted(t) ==
  /\ pc[t] = "check"
  /\ IF started
     THEN Goto(t, ReturnTo) /\ UNCHANGED runtime
     ELSE Goto(t, "boot") /\ runtime' = "booting"
  /\ UNCHANGED <<fixed, class, initer, ok, gate, started, crashed, calls>>

Booted(t) ==
  /\ pc[t] = "boot"
  /\ runtime' = "up"
  /\ Goto(t, "mark")
  /\ UNCHANGED <<fixed, class, initer, ok, gate, started, crashed, calls>>

\* Bug: the flag is not set, and the next stub starts the runtime again.
MarkStarted_Forgets(t) ==
  /\ pc[t] = "mark"
  /\ Goto(t, ReturnTo)
  /\ UNCHANGED <<fixed, class, initer, ok, gate, started, runtime, crashed, calls>>

MarkStarted(t) ==
  /\ pc[t] = "mark"
  /\ started' = TRUE
  /\ Goto(t, ReturnTo)
  /\ UNCHANGED <<fixed, class, initer, ok, gate, runtime, crashed, calls>>

-----------------------------------------------------------------------------
(* A call *)

Acquire(t) ==
  /\ pc[t] = "want"
  /\ gate = None
  /\ gate' = t
  /\ Goto(t, "require")
  /\ UNCHANGED <<fixed, class, initer, ok, started, runtime, crashed, calls>>

\* Bug: a method other than those the C# binding guards skips require().
Guarded_Requiring(m) == m \in Requiring

\* Java and C++ ask in every method, C# in some.
Guarded(m) == lang # "csharp" \/ m \in Requiring

Answer(t, r) ==
  /\ result' = [result EXCEPT ![t] = r]
  /\ Goto(t, "release")

Require(t) ==
  /\ pc[t] = "require"
  /\ IF Guarded(method[t]) /\ ~ok
     THEN Answer(t, "refused")
     ELSE Goto(t, "enter") /\ UNCHANGED result
  /\ UNCHANGED <<fixed, class, initer, ok, gate, started, runtime, crashed,
                 method, left>>

SymbolOf(m) == IF m = "abiVersion" THEN "abi" ELSE m
Linked(m) == lib.loads /\ SymbolOf(m) \in lib.symbols

\* A symbol that is not there is an exception in Java and C#, and a call
\* through a null pointer in C++.  CAMLparam0 needs a runtime.
EnterStub(t) ==
  /\ pc[t] = "enter"
  /\ \/ /\ ~Linked(method[t]) /\ lang # "cpp"
        /\ Answer(t, "refused")
        /\ UNCHANGED crashed
     \/ /\ ~Linked(method[t]) /\ lang = "cpp"
        /\ crashed' = TRUE
        /\ UNCHANGED <<pc, result>>
     \/ /\ Linked(method[t])
        /\ method[t] = "abiVersion"
        /\ Answer(t, "value")
        /\ UNCHANGED crashed
     \/ /\ Linked(method[t])
        /\ method[t] # "abiVersion"
        /\ IF runtime = "up"
           THEN Goto(t, "check") /\ UNCHANGED crashed
           ELSE crashed' = TRUE /\ UNCHANGED pc
        /\ UNCHANGED result
  /\ UNCHANGED <<fixed, class, initer, ok, gate, started, runtime, method,
                 left>>

\* closure == NULL: the stub answers -9999 or NaN (or writes no result), and the
\* method hands that on: cast to its enum, as the double, or as a false.  Only
\* the methods that look at the sign throw.
NoCallback(m) == IF m \in Throwing THEN "refused" ELSE "sentinel"

\* Bug: a stub copied from another still asks for the other's callback.
Callback_Copied(t) ==
  /\ pc[t] = "callback"
  /\ IF "filtered" \in lib.registered
     THEN Goto(t, "read") /\ UNCHANGED result
     ELSE Answer(t, NoCallback(method[t]))
  /\ UNCHANGED <<fixed, class, initer, ok, gate, started, runtime, crashed,
                 method, left>>

\* The callback is looked up by name; arguments are packed and the extracted
\* function runs; it allocates, and may move what other roots point at.
Callback(t) ==
  /\ pc[t] = "callback"
  /\ IF method[t] \in lib.registered
     THEN Goto(t, "read") /\ UNCHANGED result
     ELSE Answer(t, NoCallback(method[t]))
  /\ UNCHANGED <<fixed, class, initer, ok, gate, started, runtime, crashed,
                 method, left>>

Read(t) ==
  /\ pc[t] = "read"
  /\ Answer(t, "value")
  /\ UNCHANGED <<fixed, class, initer, ok, gate, started, runtime, crashed,
                 method, left>>

\* Bug: a refusal leaves the method before it gives the gate back.
Release_NotRefused(t) ==
  /\ pc[t] = "release"
  /\ gate' = IF Gated(method[t]) /\ result[t] = "value" THEN None ELSE gate
  /\ Goto(t, "idle")
  /\ UNCHANGED <<fixed, class, initer, ok, started, runtime, crashed, calls>>

Release(t) ==
  /\ pc[t] = "release"
  /\ gate' = IF Gated(method[t]) THEN None ELSE gate
  /\ Goto(t, "idle")
  /\ UNCHANGED <<fixed, class, initer, ok, started, runtime, crashed, calls>>

Step(t) ==
  \/ Load(t) \/ Abi(t)
  \/ CheckStarted(t) \/ Booted(t) \/ MarkStarted(t)
  \/ Acquire(t) \/ Require(t) \/ EnterStub(t)
  \/ Callback(t) \/ Read(t) \/ Release(t)

Next ==
  /\ ~crashed
  /\ \E t \in Threads : Step(t) \/ \E m \in AllMethods : Begin(t, m)

\* A runnable thread runs; no one is obliged to make a call.
Spec == Init /\ [][Next]_vars
FairSpec == Spec /\ \A t \in Threads : WF_vars(~crashed /\ Step(t))

-----------------------------------------------------------------------------
(* Properties *)

PCs == {"idle", "load", "check", "boot", "mark", "abi", "want", "require",
        "enter", "callback", "read", "release"}

\* A predicate's value is what its own callback computed, and what a stub says
\* for want of a callback is handed on only when there is none.
AnswersAreComputed ==
  \A t \in Threads :
    /\ pc[t] = "read" => method[t] \in lib.registered
    /\ pc[t] = "release" /\ result[t] = "value"
         => method[t] \in lib.registered \cup {"abiVersion"}
    /\ pc[t] = "release" /\ result[t] = "sentinel"
         => method[t] \notin lib.registered

\* Types, and where the answers come from: no sentinel of the stubs reaches a
\* caller unless nts_ffi.ml and nts_ffi_stubs.c have drifted apart (the comment
\* of the sentinels), and no value of another predicate ever does.
TypeOK ==
  /\ lang \in Languages
  /\ lib \in Libraries
  /\ class \in {"untouched", "running", "ready", "failed"}
  /\ initer \in Threads \cup {None}
  /\ ok \in BOOLEAN
  /\ gate \in Threads \cup {None}
  /\ started \in BOOLEAN
  /\ runtime \in {"down", "booting", "up"}
  /\ crashed \in BOOLEAN
  /\ pc \in [Threads -> PCs]
  /\ method \in [Threads -> AllMethods]
  /\ left \in [Threads -> Nat]
  /\ result \in [Threads -> {"none", "value", "refused", "sentinel"}]
  /\ AnswersAreComputed

InRuntime(t) == pc[t] \in {"boot", "callback", "read"}

\* The OCaml 4.14 runtime is not re-entrant: whatever the threads do, two of
\* them are never in it (nts_ffi.h, Threading), the one that boots it included.
RuntimeExclusive ==
  \A t, u \in Threads : InRuntime(t) /\ InRuntime(u) => t = u

\* The bindings keep the contract of nts_ffi.h: the runtime is started once,
\* before anyone calls it, and serves one thread at a time.
Kernel == INSTANCE SerialKernel
            WITH up <- runtime = "up",
                 inside <- {t \in Threads : InRuntime(t)}
ImplementsSerialKernel == Kernel!Spec

\* No call takes the process down, except the one through a pointer to a
\* symbol that the C++ binding looked up and did not check.
CrashOnlyOnUncheckedSymbol ==
  crashed => /\ lang = "cpp"
             /\ \E m \in Methods : m \notin lib.symbols \cup Checked

\* A predicate's value comes from a library of the expected ABI.  The C#
\* methods without Require() are the exception.
AnswersOnlyFromItsAbi ==
  \A t \in Threads :
    pc[t] \in {"callback", "read"} /\ Guarded(method[t])
      => lib.abi = ExpectedAbi /\ started

\* No thread waits for ever for the class, the gate or the runtime, unless
\* the process has died.
EveryCallEnds ==
  \A t \in Threads : (pc[t] # "idle") ~> (pc[t] = "idle" \/ crashed)
=============================================================================
