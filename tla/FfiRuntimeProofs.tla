--------------------------- MODULE FfiRuntimeProofs ---------------------------
(***************************************************************************)
(* Proofs about FfiRuntime, for any number of threads and calls, any set   *)
(* of methods and every library: the bindings keep the runtime exclusive,  *)
(* and implement SerialKernel.                                             *)
(***************************************************************************)
EXTENDS FfiRuntime, TLAPS

\* Where the thread that initialises the class may be, and which states are
\* inside a call.
InitPCs == {"load", "check", "boot", "mark", "abi"}
CallPCs == {"require", "enter", "check", "callback", "read", "release"}

\* Only the initialiser moves until the class is initialised.
PhaseInv ==
  /\ class \in {"untouched", "failed"} => \A t \in Threads : pc[t] = "idle"
  /\ class = "running" =>
       /\ initer \in Threads
       /\ pc[initer] \in InitPCs
       /\ \A t \in Threads : t # initer => pc[t] = "idle"
  /\ class = "ready" =>
       \A t \in Threads : pc[t] \notin {"load", "boot", "mark", "abi"}

\* How far the runtime is, by where the initialiser is.
BootInv ==
  /\ class = "untouched" => runtime = "down" /\ ~started
  /\ class = "running" =>
       /\ pc[initer] \in {"load", "check"} => runtime = "down" /\ ~started
       /\ pc[initer] = "boot" => runtime = "booting" /\ ~started
       /\ pc[initer] = "mark" => runtime = "up" /\ ~started
       /\ pc[initer] = "abi" => runtime = "up" /\ started
       /\ pc[initer] # "load" => Loadable

\* What the initialiser leaves behind.
ReadyInv ==
  /\ ok => /\ class = "ready"
           /\ runtime = "up"
           /\ lib.abi = ExpectedAbi
           /\ Loadable
  /\ class = "ready" =>
       /\ runtime = "up" => started
       /\ lang = "csharp" /\ lib.loads => runtime = "up"
       /\ \A t \in Threads :
            /\ pc[t] \in {"check", "callback", "read"} => runtime = "up"
            /\ /\ pc[t] \in {"enter", "check", "callback", "read"}
               /\ Guarded(method[t])
               => ok

\* A gated method holds the gate from its require() to its release.
GateInv ==
  class = "ready" =>
    \A t \in Threads :
      /\ pc[t] \in {"want", "check", "callback", "read"} => Gated(method[t])
      /\ pc[t] \in CallPCs /\ Gated(method[t]) => gate = t

FInv ==
  /\ TypeOK
  /\ PhaseInv
  /\ BootInv
  /\ ReadyInv
  /\ GateInv
  /\ CrashOnlyOnUncheckedSymbol

-----------------------------------------------------------------------------
(* The invariant is inductive                                              *)

\* It holds before anyone has touched the class.
LEMMA InitFInv == Init => FInv
<1> SUFFICES ASSUME Init PROVE FInv
  OBVIOUS
<1> USE DEF Init
<1>1. TypeOK
  BY ConstantsAssumption DEF TypeOK, PCs, AllMethods, AnswersAreComputed
<1>2. PhaseInv /\ BootInv /\ ReadyInv /\ GateInv /\ CrashOnlyOnUncheckedSymbol
  BY DEF PhaseInv, BootInv, ReadyInv, GateInv, CallPCs, CrashOnlyOnUncheckedSymbol
<1>3. QED
  BY <1>1, <1>2 DEF FInv

\* A thread that uses the class starts its initialiser or goes on to its method.
LEMMA BeginFInv ==
  ASSUME FInv, ~crashed, NEW t \in Threads, NEW m \in AllMethods, Begin(t, m)
  PROVE  FInv'
<1> USE DEF FInv, TypeOK, PCs, Begin, Goto, Body, Gated, fixed, calls
<1>1. TypeOK'
  BY ConstantsAssumption DEF AnswersAreComputed
<1>2. PhaseInv'
  BY DEF PhaseInv, InitPCs
<1>3. BootInv'
  BY DEF BootInv
<1>4. ReadyInv'
  BY DEF ReadyInv, Loadable, Guarded
<1>5. GateInv'
  BY DEF GateInv, CallPCs
<1>6. CrashOnlyOnUncheckedSymbol'
  BY DEF CrashOnlyOnUncheckedSymbol
<1>7. QED
  BY <1>1, <1>2, <1>3, <1>4, <1>5, <1>6

\* Loading the library leaves the class unavailable or the runtime to boot.
LEMMA LoadFInv ==
  ASSUME FInv, ~crashed, NEW t \in Threads, Load(t)
  PROVE  FInv'
<1> USE DEF FInv, TypeOK, PCs, Load, Goto, Loadable, Initialised, TypeFails, Body, Gated, fixed, calls
<1>1. TypeOK'
  BY ConstantsAssumption DEF AnswersAreComputed
<1>2. PhaseInv'
  BY DEF PhaseInv, InitPCs
<1>3. BootInv'
  BY DEF BootInv, PhaseInv
<1>4. ReadyInv'
  BY DEF ReadyInv, BootInv, PhaseInv
<1>5. GateInv'
  BY DEF GateInv, PhaseInv, CallPCs
<1>6. CrashOnlyOnUncheckedSymbol'
  BY DEF CrashOnlyOnUncheckedSymbol
<1>7. QED
  BY <1>1, <1>2, <1>3, <1>4, <1>5, <1>6

\* The ABI comparison ends the initialiser with a runtime that is up.
LEMMA AbiFInv ==
  ASSUME FInv, ~crashed, NEW t \in Threads, Abi(t)
  PROVE  FInv'
<1> USE DEF FInv, TypeOK, PCs, Abi, Goto, Loadable, Initialised, TypeFails, Body, Gated, fixed, calls
<1>1. TypeOK'
  BY ConstantsAssumption DEF AnswersAreComputed
<1>2. PhaseInv'
  BY DEF PhaseInv
<1>3. BootInv'
  BY DEF BootInv
<1>4. ReadyInv'
  BY DEF ReadyInv, BootInv, PhaseInv
<1>5. GateInv'
  BY DEF GateInv, PhaseInv, CallPCs
<1>6. CrashOnlyOnUncheckedSymbol'
  BY DEF CrashOnlyOnUncheckedSymbol
<1>7. QED
  BY <1>1, <1>2, <1>3, <1>4, <1>5, <1>6

\* The test of the flag boots the runtime in the initialiser only.
LEMMA CheckStartedFInv ==
  ASSUME FInv, ~crashed, NEW t \in Threads, CheckStarted(t)
  PROVE  FInv'
<1> USE DEF FInv, TypeOK, PCs, CheckStarted, Goto, ReturnTo, fixed, calls
<1>1. TypeOK'
  BY ConstantsAssumption DEF AnswersAreComputed
<1>2. PhaseInv'
  BY DEF PhaseInv, ReadyInv, InitPCs
<1>3. BootInv'
  BY DEF BootInv, PhaseInv, Loadable
<1>4. ReadyInv'
  BY DEF ReadyInv, Loadable, Guarded
<1>5. GateInv'
  BY DEF GateInv, CallPCs
<1>6. CrashOnlyOnUncheckedSymbol'
  BY DEF CrashOnlyOnUncheckedSymbol
<1>7. QED
  BY <1>1, <1>2, <1>3, <1>4, <1>5, <1>6

\* caml_startup returns to the initialiser.
LEMMA BootedFInv ==
  ASSUME FInv, ~crashed, NEW t \in Threads, Booted(t)
  PROVE  FInv'
<1> USE DEF FInv, TypeOK, PCs, Booted, Goto, fixed, calls
<1>1. TypeOK'
  BY DEF AnswersAreComputed
<1>2. PhaseInv'
  BY DEF PhaseInv, InitPCs
<1>3. BootInv'
  BY DEF BootInv, PhaseInv, Loadable
<1>4. ReadyInv'
  BY DEF ReadyInv, PhaseInv
<1>5. GateInv'
  BY DEF GateInv, CallPCs
<1>6. CrashOnlyOnUncheckedSymbol'
  BY DEF CrashOnlyOnUncheckedSymbol
<1>7. QED
  BY <1>1, <1>2, <1>3, <1>4, <1>5, <1>6

\* The flag is set by the initialiser.
LEMMA MarkStartedFInv ==
  ASSUME FInv, ~crashed, NEW t \in Threads, MarkStarted(t)
  PROVE  FInv'
<1> USE DEF FInv, TypeOK, PCs, MarkStarted, Goto, ReturnTo, fixed, calls
<1>1. TypeOK'
  BY DEF AnswersAreComputed
<1>2. PhaseInv'
  BY DEF PhaseInv, InitPCs
<1>3. BootInv'
  BY DEF BootInv, PhaseInv, Loadable
<1>4. ReadyInv'
  BY DEF ReadyInv, PhaseInv
<1>5. GateInv'
  BY DEF GateInv, PhaseInv
<1>6. CrashOnlyOnUncheckedSymbol'
  BY DEF CrashOnlyOnUncheckedSymbol
<1>7. QED
  BY <1>1, <1>2, <1>3, <1>4, <1>5, <1>6

\* The gate is free when a thread takes it.
LEMMA AcquireFInv ==
  ASSUME FInv, ~crashed, NEW t \in Threads, Acquire(t)
  PROVE  FInv'
<1> USE DEF FInv, TypeOK, PCs, Acquire, Goto, fixed, calls
<1>1. TypeOK'
  BY DEF AnswersAreComputed
<1>2. PhaseInv'
  BY DEF PhaseInv, InitPCs
<1>3. BootInv'
  BY DEF BootInv, Loadable
<1>4. ReadyInv'
  BY DEF ReadyInv, Loadable, Guarded
<1>5. GateInv'
  BY ConstantsAssumption DEF GateInv
<1>6. CrashOnlyOnUncheckedSymbol'
  BY DEF CrashOnlyOnUncheckedSymbol
<1>7. QED
  BY <1>1, <1>2, <1>3, <1>4, <1>5, <1>6

\* A guarded method goes on only if the library is available.
LEMMA RequireFInv ==
  ASSUME FInv, ~crashed, NEW t \in Threads, Require(t)
  PROVE  FInv'
<1> USE DEF FInv, TypeOK, PCs, Require, Goto, Answer, fixed, calls
<1>1. TypeOK'
  BY DEF AnswersAreComputed
<1>2. PhaseInv'
  BY DEF PhaseInv, InitPCs
<1>3. BootInv'
  BY DEF BootInv, PhaseInv, Loadable
<1>4. ReadyInv'
  BY DEF ReadyInv, Loadable, Guarded
<1>5. GateInv'
  BY DEF GateInv, CallPCs
<1>6. CrashOnlyOnUncheckedSymbol'
  BY DEF CrashOnlyOnUncheckedSymbol
<1>7. QED
  BY <1>1, <1>2, <1>3, <1>4, <1>5, <1>6

\* The stub runs with the gate held and the runtime up; a missing symbol is
\* fatal in C++ alone.
LEMMA EnterStubFInv ==
  ASSUME FInv, ~crashed, NEW t \in Threads, EnterStub(t)
  PROVE  FInv'
<1> USE DEF FInv, TypeOK, PCs, EnterStub, Goto, Answer, Linked, SymbolOf, Loadable, Checked, fixed, calls
<1>1. TypeOK'
  <2>1. pc' \in [Threads -> PCs] /\ crashed' \in BOOLEAN
    OBVIOUS
  <2>2. result' \in [Threads -> {"none", "value", "refused", "sentinel"}]
    OBVIOUS
  <2>3. AnswersAreComputed'
    BY DEF AnswersAreComputed
  <2>4. QED
    BY <2>1, <2>2, <2>3
<1>2. PhaseInv'
  BY DEF PhaseInv, InitPCs
<1>3. BootInv'
  BY DEF BootInv, PhaseInv, InitPCs
<1>4. ReadyInv'
  BY DEF ReadyInv, Guarded
<1>5. GateInv'
  BY DEF GateInv, CallPCs, Gated
<1>6. CrashOnlyOnUncheckedSymbol'
  BY DEF CrashOnlyOnUncheckedSymbol, ReadyInv, PhaseInv, InitPCs, Guarded, AllMethods
<1>7. QED
  BY <1>1, <1>2, <1>3, <1>4, <1>5, <1>6

\* The callback is looked up, and the extracted function runs, with the gate held.
LEMMA CallbackFInv ==
  ASSUME FInv, ~crashed, NEW t \in Threads, Callback(t)
  PROVE  FInv'
<1> USE DEF FInv, TypeOK, PCs, Callback, Goto, Answer, NoCallback, fixed, calls
<1>1. TypeOK'
  <2>1. AnswersAreComputed'
    BY DEF AnswersAreComputed
  <2>2. QED
    BY <2>1
<1>2. PhaseInv'
  BY DEF PhaseInv, InitPCs
<1>3. BootInv'
  <2>1. class = "ready" /\ class' = "ready"
    BY DEF PhaseInv, InitPCs
  <2>2. QED
    BY <2>1 DEF BootInv
<1>4. ReadyInv'
  BY DEF ReadyInv, Loadable, Guarded
<1>5. GateInv'
  BY DEF GateInv, CallPCs
<1>6. CrashOnlyOnUncheckedSymbol'
  BY DEF CrashOnlyOnUncheckedSymbol
<1>7. QED
  BY <1>1, <1>2, <1>3, <1>4, <1>5, <1>6

\* The result is read with the gate held.
LEMMA ReadFInv ==
  ASSUME FInv, ~crashed, NEW t \in Threads, Read(t)
  PROVE  FInv'
<1> USE DEF FInv, TypeOK, PCs, Read, Goto, Answer, fixed, calls
<1>1. TypeOK'
  BY DEF AnswersAreComputed
<1>2. PhaseInv'
  BY DEF PhaseInv, InitPCs
<1>3. BootInv'
  BY DEF BootInv, Loadable
<1>4. ReadyInv'
  BY DEF ReadyInv, Loadable, Guarded
<1>5. GateInv'
  BY DEF GateInv, CallPCs
<1>6. CrashOnlyOnUncheckedSymbol'
  BY DEF CrashOnlyOnUncheckedSymbol
<1>7. QED
  BY <1>1, <1>2, <1>3, <1>4, <1>5, <1>6

\* The gate goes back to no one.
LEMMA ReleaseFInv ==
  ASSUME FInv, ~crashed, NEW t \in Threads, Release(t)
  PROVE  FInv'
<1> USE DEF FInv, TypeOK, PCs, Release, Goto, fixed, calls
<1>1. TypeOK'
  BY DEF AnswersAreComputed
<1>2. PhaseInv'
  BY DEF PhaseInv, InitPCs
<1>3. BootInv'
  BY DEF BootInv, Loadable
<1>4. ReadyInv'
  BY DEF ReadyInv, Loadable, Guarded
<1>5. GateInv'
  BY DEF GateInv, CallPCs
<1>6. CrashOnlyOnUncheckedSymbol'
  BY DEF CrashOnlyOnUncheckedSymbol
<1>7. QED
  BY <1>1, <1>2, <1>3, <1>4, <1>5, <1>6

\* Every step preserves the invariant.
LEMMA NextFInv == FInv /\ [Next]_vars => FInv'
<1> SUFFICES ASSUME FInv, [Next]_vars PROVE FInv'
  OBVIOUS
<1>1. CASE UNCHANGED vars
  BY <1>1 DEF vars, FInv, TypeOK, AnswersAreComputed, PhaseInv, BootInv, ReadyInv,
              GateInv, Loadable, Guarded, Gated, CrashOnlyOnUncheckedSymbol
<1>2. CASE Next
  <2> ~crashed
    BY <1>2 DEF Next
  <2>1. ASSUME NEW t \in Threads, NEW m \in AllMethods, Begin(t, m)
        PROVE  FInv'
    BY <2>1, BeginFInv
  <2>2. ASSUME NEW t \in Threads, Step(t) PROVE FInv'
    BY <2>2, LoadFInv, AbiFInv, CheckStartedFInv, BootedFInv, MarkStartedFInv,
       AcquireFInv, RequireFInv, EnterStubFInv, CallbackFInv, ReadFInv,
       ReleaseFInv
    DEF Step
  <2>3. QED
    BY <1>2, <2>1, <2>2 DEF Next
<1>3. QED
  BY <1>1, <1>2

\* The invariant holds in every reachable state.
THEOREM FfiInvariance == Spec => []FInv
  BY InitFInv, NextFInv, PTL DEF Spec

\* The variables keep their types, and whatever the library has or lacks, a value
\* is what the method's own callback computed and a sentinel of the stubs reaches
\* the caller only for want of that callback.
THEOREM FfiTypeCorrect == Spec => []TypeOK
<1>1. FInv => TypeOK
  BY DEF FInv
<1>2. QED
  BY <1>1, FfiInvariance, PTL

\* Two threads in the runtime both hold the gate.
LEMMA ExclusiveState == FInv => RuntimeExclusive
<1> SUFFICES ASSUME FInv, NEW t \in Threads, NEW u \in Threads,
                    InRuntime(t), InRuntime(u)
             PROVE  t = u
  BY DEF RuntimeExclusive
<1>1. CASE class = "ready"
  <2>1. \A v \in {t, u} : pc[v] \in {"callback", "read"}
    BY <1>1 DEF FInv, PhaseInv, InRuntime
  <2>2. \A v \in {t, u} : gate = v
    BY <1>1, <2>1 DEF FInv, GateInv, CallPCs
  <2>3. QED
    BY <2>2
<1>2. CASE class # "ready"
  BY <1>2 DEF FInv, TypeOK, PhaseInv, InRuntime
<1>3. QED
  BY <1>1, <1>2

\* However many threads call, and whichever the binding, two of them are never
\* in the OCaml runtime: the gate of the bindings and the initialisation of the
\* class are enough for what nts_ffi.h asks.
THEOREM RuntimeIsExclusive == Spec => []RuntimeExclusive
  BY ExclusiveState, FfiInvariance, PTL

\* Only the C++ binding can be taken down by a call, and only through one of
\* the symbols it does not check.
THEOREM CrashesAreExplained == Spec => []CrashOnlyOnUncheckedSymbol
<1>1. FInv => CrashOnlyOnUncheckedSymbol
  BY DEF FInv
<1>2. QED
  BY <1>1, FfiInvariance, PTL

\* A guarded predicate never computes in a library of another ABI, or before
\* the runtime is started.
THEOREM AnswersAreFromItsAbi == Spec => []AnswersOnlyFromItsAbi
<1>1. FInv => AnswersOnlyFromItsAbi
  <2> SUFFICES ASSUME FInv, NEW t \in Threads,
                      pc[t] \in {"callback", "read"}, Guarded(method[t])
               PROVE  lib.abi = ExpectedAbi /\ started
    BY DEF AnswersOnlyFromItsAbi
  <2>1. class = "ready"
    BY DEF FInv, TypeOK, PhaseInv, InitPCs
  <2>2. QED
    BY <2>1 DEF FInv, ReadyInv
<1>2. QED
  BY <1>1, FfiInvariance, PTL

-----------------------------------------------------------------------------
(* The bindings implement SerialKernel                                     *)

inside == {t \in Threads : InRuntime(t)}
up == runtime = "up"

\* A step that moves no thread into or out of the runtime, and neither boots it
\* nor brings it up, is a stutter of the kernel.
LEMMA Stutters ==
  ASSUME \A t \in Threads : InRuntime(t)' <=> InRuntime(t),
         up' = up
  PROVE  UNCHANGED <<up, inside>>
  BY DEF inside

\* The thread that boots is the first in the runtime; the one whose stub finds
\* the flag set has the runtime, which is up, for itself.
LEMMA CheckIsStartOrCall ==
  ASSUME FInv, NEW t \in Threads, CheckStarted(t)
  PROVE  Kernel!Next \/ UNCHANGED <<up, inside>>
<1> USE DEF FInv, TypeOK, CheckStarted, ReturnTo, Goto, fixed, InRuntime
<1>1. CASE class = "ready"
  <2>1. started /\ up /\ up'
    BY <1>1 DEF ReadyInv, up
  <2>2. gate = t
    BY <1>1 DEF GateInv, CallPCs
  <2>3. inside = {}
    BY <1>1, <2>2 DEF inside, GateInv, PhaseInv, CallPCs
  <2>4. inside' = {t}
    BY <1>1, <2>1, <2>3 DEF inside
  <2>5. Kernel!Call(t)
    BY <2>1, <2>3, <2>4 DEF Kernel!Call, Kernel!Enter, up, inside
  <2>6. QED
    BY <2>5 DEF Kernel!Next
<1>2. CASE class = "running"
  <2>1. t = initer /\ ~started /\ ~up /\ ~up'
    BY <1>2 DEF PhaseInv, BootInv, up
  <2>2. inside = {}
    BY <1>2, <2>1 DEF inside, PhaseInv
  <2>3. inside' = {t}
    BY <1>2, <2>1, <2>2 DEF inside
  <2>4. Kernel!Start(t)
    BY <2>1, <2>2, <2>3 DEF Kernel!Start, Kernel!Enter, up, inside
  <2>5. QED
    BY <2>4 DEF Kernel!Next
<1>3. QED
  BY <1>1, <1>2 DEF PhaseInv

\* caml_startup returns: the kernel is up and no one is in it.
LEMMA BootedIsStarted ==
  ASSUME FInv, NEW t \in Threads, Booted(t)
  PROVE  Kernel!Next
<1> USE DEF FInv, TypeOK, Booted, Goto, fixed, InRuntime
<1>1. class = "running" /\ t = initer
  BY DEF PhaseInv
<1>2. ~up /\ up'
  BY <1>1 DEF BootInv, up
<1>3. inside = {t}
  BY <1>1 DEF inside, PhaseInv
<1>4. inside' = {}
  BY <1>1, <1>3 DEF inside
<1>5. Kernel!Started(t)
  BY <1>2, <1>3, <1>4 DEF Kernel!Started, Kernel!Leave, up, inside
<1>6. QED
  BY <1>5 DEF Kernel!Next

\* A stub that has read its result, or has found no callback, leaves the kernel.
LEMMA LeavingIsReturn ==
  ASSUME FInv, NEW t \in Threads,
         Read(t) \/ (Callback(t) /\ method[t] \notin lib.registered)
  PROVE  Kernel!Next
<1> USE DEF FInv, TypeOK, Read, Callback, Answer, Goto, fixed, InRuntime
<1>1. class = "ready"
  BY DEF PhaseInv, InitPCs
<1>2. up /\ up'
  BY <1>1 DEF ReadyInv, up
<1>3. inside = {t}
  BY ExclusiveState DEF inside, RuntimeExclusive
<1>4. inside' = {}
  BY <1>3 DEF inside
<1>5. Kernel!Return(t)
  BY <1>2, <1>3, <1>4 DEF Kernel!Return, Kernel!Leave, up, inside
<1>6. QED
  BY <1>5 DEF Kernel!Next

\* Every other step of a binding is a stutter of the kernel.
LEMMA OthersStutter ==
  ASSUME FInv, NEW t \in Threads,
         \/ Load(t) \/ Abi(t) \/ MarkStarted(t) \/ Acquire(t) \/ Require(t)
         \/ EnterStub(t) \/ (Callback(t) /\ method[t] \in lib.registered)
         \/ Release(t)
         \/ \E m \in AllMethods : Begin(t, m)
  PROVE  UNCHANGED <<up, inside>>
<1>1. runtime' = runtime
  BY DEF Load, Abi, MarkStarted, Acquire, Require, EnterStub, Callback, Release,
         Begin
<1>2. pc \in [Threads -> PCs]
  BY DEF FInv, TypeOK
<1>3. \A u \in Threads : InRuntime(u)' <=> InRuntime(u)
  <2> USE <1>2 DEF Goto, InRuntime
  <2>1. CASE Load(t) \/ Abi(t)
    BY <2>1 DEF Load, Abi, Initialised, TypeFails, Body
  <2>2. CASE MarkStarted(t)
    <3>1. class = "running"
      BY <2>2 DEF MarkStarted, FInv, TypeOK, PhaseInv
    <3>2. QED
      BY <2>2, <3>1 DEF MarkStarted, ReturnTo
  <2>3. CASE Acquire(t) \/ (Callback(t) /\ method[t] \in lib.registered) \/ Release(t)
    BY <2>3 DEF Acquire, Callback, Release
  <2>4. CASE Require(t) \/ EnterStub(t)
    BY <2>4 DEF Require, EnterStub, Answer
  <2>5. CASE \E m \in AllMethods : Begin(t, m)
    BY <2>5 DEF Begin, Body
  <2>6. QED
    BY <2>1, <2>2, <2>3, <2>4, <2>5
<1>4. QED
  BY <1>1, <1>3, Stutters DEF up

\* A step of the bindings is a step of the kernel or a stutter.
LEMMA StepIsKernelStep ==
  FInv /\ [Next]_vars => [Kernel!Next]_<<up, inside>>
<1> SUFFICES ASSUME FInv, [Next]_vars
             PROVE  Kernel!Next \/ UNCHANGED <<up, inside>>
  OBVIOUS
<1>1. CASE UNCHANGED vars
  BY <1>1 DEF vars, up, inside, InRuntime
<1>2. ASSUME NEW t \in Threads, Step(t) \/ \E m \in AllMethods : Begin(t, m)
      PROVE  Kernel!Next \/ UNCHANGED <<up, inside>>
  BY <1>2, CheckIsStartOrCall, BootedIsStarted, LeavingIsReturn, OthersStutter
  DEF Step
<1>3. QED
  BY <1>1, <1>2 DEF Next

\* The bindings start with no runtime and no one in it.
LEMMA InitIsKernelInit == Init => Kernel!Init
  BY DEF Init, Kernel!Init, InRuntime

\* Any number of threads through any of the bindings keep the contract of
\* nts_ffi.h: the runtime is started once, before any call, and serves one
\* thread at a time.
THEOREM BindingsImplementSerialKernel == Spec => ImplementsSerialKernel
<1>1. FInv /\ [Next]_vars
        => [Kernel!Next]_<<runtime = "up", {t \in Threads : InRuntime(t)}>>
  BY StepIsKernelStep DEF up, inside
<1>2. QED
  BY <1>1, InitIsKernelInit, FfiInvariance, PTL
  DEF Spec, ImplementsSerialKernel, Kernel!Spec

-----------------------------------------------------------------------------
(* Every call ends: what of it is not about fairness                       *)

\* The gate is in the hands of a thread that is in the middle of a gated call.
GateHeldInCall ==
  gate # None =>
    /\ class = "ready"
    /\ gate \in Threads
    /\ pc[gate] \in CallPCs
    /\ Gated(method[gate])

\* A thread that waits for nobody: the steps of the others do not matter to it.
Free(t) == pc[t] \notin {"idle", "want"} \/ (pc[t] = "want" /\ gate = None)

\* While a call is under way, some thread waits for nobody.
NoDeadlock ==
  (\E t \in Threads : pc[t] # "idle") => \E t \in Threads : Free(t)

\* The steps that thread t has before it at most: 18 for each call it may still
\* make, and those that are left of the call it is in.
Ahead ==
  [idle |-> 0, load |-> 17, boot |-> 15, mark |-> 14, abi |-> 13, want |-> 10,
   require |-> 9, enter |-> 8, check |-> 7, callback |-> 4, read |-> 3,
   release |-> 2]
Place(t) == IF pc[t] = "check" /\ class = "running" THEN 16 ELSE Ahead[pc[t]]
Toll(t) == 18 * left[t] + Place(t)

\* A step takes one thread nearer to its end and holds up no other; the one
\* step that does not is the crash.
Nearer ==
  crashed' \/ \E t \in Threads :
                /\ Toll(t)' < Toll(t)
                /\ \A u \in Threads : u # t => Toll(u)' = Toll(u)
TollFalls == [][Nearer]_vars

\* Before anyone has touched the class the gate is free.
LEMMA InitGateHeld == Init => GateHeldInCall
  BY DEF Init, GateHeldInCall

\* A thread that does not hold the gate cannot move the one that does, and the
\* one that does keeps it until its release.
LEMMA NextGateHeld == FInv /\ GateHeldInCall /\ [Next]_vars => GateHeldInCall'
<1> SUFFICES ASSUME FInv, GateHeldInCall, [Next]_vars PROVE GateHeldInCall'
  OBVIOUS
<1> USE DEF GateHeldInCall, CallPCs, Gated, FInv, TypeOK, PCs, Goto, fixed, calls
<1>1. CASE UNCHANGED vars
  BY <1>1 DEF vars
<1>2. ASSUME NEW t \in Threads, NEW m \in AllMethods, Begin(t, m)
      PROVE  GateHeldInCall'
  BY <1>2 DEF Begin, Body
<1>3. ASSUME NEW t \in Threads, Load(t) \/ Abi(t) \/ Booted(t) \/ MarkStarted(t)
      PROVE  GateHeldInCall'
  <2>1. class = "running"
    BY <1>3 DEF PhaseInv, Load, Abi, Booted, MarkStarted
  <2>2. gate = None
    BY <2>1
  <2>3. QED
    BY <1>3, <2>2 DEF Load, Abi, Booted, MarkStarted
<1>4. ASSUME NEW t \in Threads, CheckStarted(t) PROVE GateHeldInCall'
  <2>1. class = "ready" => started
    BY <1>4 DEF CheckStarted, ReadyInv
  <2>2. QED
    BY <1>4, <2>1 DEF CheckStarted, ReturnTo
<1>5. ASSUME NEW t \in Threads, Acquire(t) PROVE GateHeldInCall'
  <2>1. class = "ready" /\ Gated(method[t])
    BY <1>5 DEF Acquire, PhaseInv, InitPCs, GateInv
  <2>2. QED
    BY <1>5, <2>1 DEF Acquire
<1>6. ASSUME NEW t \in Threads, Require(t) \/ Callback(t) \/ Read(t)
      PROVE  GateHeldInCall'
  BY <1>6 DEF Require, Callback, Read, Answer
<1>7. ASSUME NEW t \in Threads, EnterStub(t) PROVE GateHeldInCall'
  BY <1>7 DEF EnterStub, Answer
<1>8. ASSUME NEW t \in Threads, Release(t) PROVE GateHeldInCall'
  <2>1. CASE Gated(method[t])
    BY <1>8, <2>1 DEF Release
  <2>2. CASE ~Gated(method[t])
    BY <1>8, <2>2 DEF Release
  <2>3. QED
    BY <2>1, <2>2
<1>9. QED
  BY <1>1, <1>2, <1>3, <1>4, <1>5, <1>6, <1>7, <1>8 DEF Next, Step

\* The gate is never lost: a thread that waits for it waits for a thread that is
\* in the middle of a call and has its release before it, a refusal, an
\* exception and an unavailable library included.
THEOREM GateIsNeverLost == Spec => []GateHeldInCall
  BY InitGateHeld, NextGateHeld, FfiInvariance, PTL DEF Spec

\* A thread in a call is free, or waits for one that is.
LEMMA SomeThreadIsFree == GateHeldInCall => NoDeadlock
<1> SUFFICES ASSUME GateHeldInCall, NEW t \in Threads, pc[t] # "idle"
             PROVE  \E u \in Threads : Free(u)
  BY DEF NoDeadlock
<1>1. CASE Free(t)
  BY <1>1
<1>2. CASE ~Free(t)
  <2>1. gate # None
    BY <1>2 DEF Free
  <2>2. gate \in Threads /\ Free(gate)
    BY <2>1 DEF GateHeldInCall, CallPCs, Free
  <2>3. QED
    BY <2>2
<1>3. QED
  BY <1>1, <1>2

\* However many threads wait for the class, the gate or the runtime, they never
\* wait for one another in a circle: one of them can go on.
THEOREM NoThreadsWaitInCircle == Spec => []NoDeadlock
  BY GateIsNeverLost, SomeThreadIsFree, PTL

-----------------------------------------------------------------------------

\* A place is a number of steps.
LEMMA PlaceType == ASSUME FInv, NEW t \in Threads PROVE Place(t) \in 0 .. 17
  BY DEF FInv, TypeOK, PCs, Place, Ahead

\* A thread whose program counter and calls do not change has as far to go as
\* before, unless it is the one whose initialisation of the class ends.
LEMMA OthersKeepTheirToll ==
  ASSUME FInv, NEW u \in Threads, pc'[u] = pc[u], left'[u] = left[u],
         class' = class \/ pc[u] # "check"
  PROVE  Toll(u)' = Toll(u)
  BY DEF FInv, TypeOK, PCs, Toll, Place, Ahead

\* The thread of a step has its toll lowered if its place is, and its calls stay.
LEMMA LowerPlace ==
  ASSUME FInv, FInv', NEW t \in Threads, left' = left, Place(t)' < Place(t)
  PROVE  Toll(t)' < Toll(t)
<1>1. Place(t) \in 0 .. 17 /\ Place(t)' \in 0 .. 17
  <2>1. Place(t) \in 0 .. 17
    BY PlaceType
  <2>2. Place(t)' \in 0 .. 17
    BY DEF FInv, TypeOK, PCs, Place, Ahead
  <2>3. QED
    BY <2>1, <2>2
<1>2. left[t] \in Nat
  BY DEF FInv, TypeOK
<1>3. QED
  BY <1>1, <1>2 DEF Toll

\* A use of the class pays for the call with one of the calls left.
LEMMA BeginTakesToll ==
  ASSUME FInv, NEW t \in Threads, NEW m \in AllMethods, Begin(t, m)
  PROVE  Toll(t)' < Toll(t)
<1> USE DEF FInv, TypeOK, Begin
<1>1. left[t] \in Nat /\ left'[t] = left[t] - 1 /\ Place(t) = 0
  BY DEF Place, Ahead
<1>2. pc'[t] \in {"load", "want", "require", "idle"}
  BY DEF Goto, Body
<1>3. Place(t)' \in 0 .. 17
  BY <1>2 DEF Place, Ahead
<1>4. QED
  BY <1>1, <1>3 DEF Toll

\* Each step of a call leads to a later place, the crash apart.
LEMMA StepGoesOn ==
  ASSUME FInv, NEW t \in Threads, Step(t), ~crashed'
  PROVE  Place(t)' < Place(t)
<1> USE DEF FInv, TypeOK, PCs, Goto, Place, Ahead
<1>1. CASE Load(t) \/ Abi(t)
  BY <1>1 DEF Load, Abi, Initialised, TypeFails, Body, PhaseInv
<1>2. CASE CheckStarted(t)
  <2>1. class = "running" \/ (class = "ready" /\ started)
    BY <1>2 DEF CheckStarted, PhaseInv, ReadyInv
  <2>2. QED
    BY <1>2, <2>1 DEF CheckStarted, ReturnTo
<1>3. CASE Booted(t)
  BY <1>3 DEF Booted
<1>4. CASE MarkStarted(t)
  <2>1. class = "running"
    BY <1>4 DEF MarkStarted, PhaseInv
  <2>2. QED
    BY <1>4, <2>1 DEF MarkStarted, ReturnTo
<1>5. CASE Acquire(t) \/ Release(t)
  BY <1>5 DEF Acquire, Release
<1>6. CASE Require(t) \/ Callback(t) \/ Read(t)
  BY <1>6 DEF Require, Callback, Read, Answer
<1>7. CASE EnterStub(t)
  <2>1. class # "running"
    BY <1>7 DEF EnterStub, PhaseInv, InitPCs
  <2>2. QED
    BY <1>7, <2>1 DEF EnterStub, Answer
<1>8. QED
  BY <1>1, <1>2, <1>3, <1>4, <1>5, <1>6, <1>7 DEF Step

\* A step moves no other thread.
LEMMA StepLeavesOthers ==
  ASSUME FInv, NEW t \in Threads, NEW u \in Threads, u # t,
         Step(t) \/ \E m \in AllMethods : Begin(t, m)
  PROVE  Toll(u)' = Toll(u)
<1> USE DEF FInv, TypeOK, Goto
<1>1. pc'[u] = pc[u]
  <2>1. CASE Step(t)
    BY <2>1 DEF Step, Load, Abi, Initialised, TypeFails, CheckStarted, Booted,
       MarkStarted, Acquire, Require, EnterStub, Answer, Callback, Read, Release
  <2>2. CASE \E m \in AllMethods : Begin(t, m)
    BY <2>2 DEF Begin
  <2>3. QED
    BY <2>1, <2>2
<1>2. left'[u] = left[u]
  BY DEF Step, Load, Abi, CheckStarted, Booted, MarkStarted, Acquire, Require,
     EnterStub, Callback, Read, Release, Begin, calls
<1>3. class' = class \/ pc[u] # "check"
  <2>1. CASE Load(t) \/ Abi(t)
    BY <2>1 DEF Load, Abi, PhaseInv
  <2>2. CASE \E m \in AllMethods : Begin(t, m)
    BY <2>2 DEF Begin, PhaseInv
  <2>3. CASE Step(t) /\ ~(Load(t) \/ Abi(t))
    BY <2>3 DEF Step, CheckStarted, Booted, MarkStarted, Acquire, Require,
       EnterStub, Callback, Read, Release
  <2>4. QED
    BY <2>1, <2>2, <2>3
<1>4. QED
  BY <1>1, <1>2, <1>3, OthersKeepTheirToll

\* A step of a call makes no other call.
LEMMA StepKeepsCalls ==
  ASSUME NEW t \in Threads, Step(t) PROVE left' = left
  BY DEF Step, Load, Abi, CheckStarted, Booted, MarkStarted, Acquire, Require,
     EnterStub, Callback, Read, Release, calls

\* A step of the process is a crash or takes its thread nearer to its end.
LEMMA NextIsNearer == FInv /\ FInv' /\ Next => Nearer
<1> SUFFICES ASSUME FInv, FInv', Next, ~crashed' PROVE Nearer
  BY DEF Nearer
<1>1. PICK t \in Threads : Step(t) \/ \E m \in AllMethods : Begin(t, m)
  BY DEF Next
<1>2. Toll(t)' < Toll(t)
  <2>1. CASE Step(t)
    BY <2>1, StepGoesOn, StepKeepsCalls, LowerPlace
  <2>2. CASE \E m \in AllMethods : Begin(t, m)
    BY <2>2, BeginTakesToll
  <2>3. QED
    BY <1>1, <2>1, <2>2
<1>3. \A u \in Threads : u # t => Toll(u)' = Toll(u)
  BY <1>1, StepLeavesOthers
<1>4. QED
  BY <1>2, <1>3 DEF Nearer

\* No thread runs in a loop, in any binding and with any library: every step
\* brings its thread nearer to the end of its calls and pushes no other back, so
\* a process makes at most 18 steps for each call of each thread.
THEOREM EveryStepIsNearer == Spec => TollFalls
<1>1. FInv /\ FInv' /\ [Next]_vars => [Nearer]_vars
  BY NextIsNearer
<1>2. QED
  BY <1>1, FfiInvariance, PTL DEF Spec, TollFalls
=============================================================================
