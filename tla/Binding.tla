------------------------------ MODULE Binding ------------------------------
(***************************************************************************)
(* Which memory a CPUState works on (include/cpu_state.hpp), and who owns  *)
(* it: a CPU holds a SimpleMemory, the TestCpu of the full test an         *)
(* AlignedMemory, and a state constructed on it.  CPUState keeps the       *)
(* memory twice: as the pointer memoryPtr, which operator= copies, and as  *)
(* the reference memory, which is bound once and is what every access      *)
(* goes through.  One value stands for all bytes of a memory.              *)
(***************************************************************************)
EXTENDS Naturals

CONSTANTS
  Simple,     \* objects that own a SimpleMemory (CPU)
  Aligned,    \* objects that own an AlignedMemory (TestCpu)
  Copies,     \* CPUState objects a host copies from the state of an owner
  Defaults,   \* CPUState objects a host constructs without a memory
  Value,      \* contents of a memory or of the registers
  Null        \* the null pointer

Owners == Simple \cup Aligned

Objects == Owners \cup Copies \cup Defaults

ASSUME ObjectsAssumption ==
  /\ Null \notin Objects
  /\ Owners \cap Copies = {} /\ Owners \cap Defaults = {} /\ Copies \cap Defaults = {}

VARIABLES
  live,       \* constructed objects that are not destroyed
  state,      \* the CPUState of each object
  bytes,      \* the contents of the memory of each owner
  fate        \* of the last operation: "wild" is an access outside any memory

vars == <<live, state, bytes, fate>>

Fates == {"ok", "bad_alloc", "wild"}

CPUStates ==
  [memoryPtr : Owners \cup {Null}, memory : Owners \cup {Null}, registers : Value]

BoundTo(m, v) == [memoryPtr |-> m, memory |-> m, registers |-> v]

Init ==
  /\ live = {}
  /\ state \in {[o \in Objects |-> BoundTo(Null, v)] : v \in Value}
  /\ bytes \in [Owners -> Value]
  /\ fate = "ok"

Running == fate # "wild"

Become(o, s) == live' = live \cup {o} /\ state' = [state EXCEPT ![o] = s]

(* The bytes are not initialised; the last one is written and read back.   *)
Construct(o) ==
  /\ Running /\ o \in Owners \ live
  /\ \E v \in Value : /\ Become(o, BoundTo(o, v))
                      /\ bytes' = [bytes EXCEPT ![o] = v]
  /\ fate' = "ok"

(***************************************************************************)
(* new throws, and there is no object.  aligned_alloc gives NULL, and the  *)
(* constructor of BaseMemory, whose test is base || size, writes to it.    *)
(***************************************************************************)
AllocationFails(o) ==
  /\ Running /\ o \in Owners \ live
  /\ fate' = IF o \in Simple THEN "bad_alloc" ELSE "wild"
  /\ UNCHANGED <<live, state, bytes>>

(* CPUState(): the reference is *nullptr.                                  *)
ConstructDefault(t) ==
  /\ Running /\ t \in Defaults \ live
  /\ \E v \in Value : Become(t, BoundTo(Null, v))
  /\ fate' = "ok"
  /\ UNCHANGED bytes

(* The implicit copy constructor binds the reference to the same memory.   *)
Copy(t, o) ==
  /\ Running /\ t \in Copies \ live /\ o \in Owners \cap live
  /\ Become(t, state[o])
  /\ fate' = "ok"
  /\ UNCHANGED bytes

(* Faulty variant of Assigned: registers and memory are one assignment.    *)
AssignedWhole(a, b) == b

(* operator=: the pointer and the registers, but not the reference.        *)
Assigned(a, b) == [a EXCEPT !.memoryPtr = b.memoryPtr, !.registers = b.registers]

Assign(a, b) ==
  /\ Running /\ {a, b} \subseteq live
  /\ state' = [state EXCEPT ![a] = Assigned(state[a], state[b])]
  /\ fate' = "ok"
  /\ UNCHANGED <<live, bytes>>

(* A step on the state of o writes v: memory.set(...).                     *)
Write(o, v) ==
  /\ Running /\ o \in live
  /\ LET m == state[o].memory
     IN  IF m \in live
         THEN bytes' = [bytes EXCEPT ![m] = v] /\ fate' = "ok"
         ELSE bytes' = bytes /\ fate' = "wild"
  /\ state' = [state EXCEPT ![o].registers = v]
  /\ UNCHANGED live

(* A host destroys an owner after the copies of its state.                 *)
Destroy(o) ==
  /\ Running /\ o \in live
  /\ \A t \in Copies \cap live : state[t].memory # o
  /\ live' = live \ {o}
  /\ fate' = "ok"
  /\ UNCHANGED <<state, bytes>>

Next ==
  \/ \E o \in Owners : Construct(o) \/ AllocationFails(o)
  \/ \E t \in Defaults : ConstructDefault(t)
  \/ \E t \in Copies, o \in Owners : Copy(t, o)
  \/ \E a, b \in Objects : Assign(a, b)
  \/ \E o \in Objects, v \in Value : Write(o, v)
  \/ \E o \in Objects : Destroy(o)

Spec == Init /\ [][Next]_vars
-----------------------------------------------------------------------------
(***************************************************************************)
(* However states are copied, assigned between CPUs, fresh states and      *)
(* copies, and destroyed, the state of a live owner works on the memory of *)
(* that owner, and a copy on a memory that still exists; memoryPtr may     *)
(* name another, a dead one or none (operator=, include/cpu_state.hpp).    *)
(***************************************************************************)
WorksOnOwnMemory ==
  /\ \A o \in live \cap Owners : state[o].memory = o
  /\ \A t \in live \cap Copies : state[t].memory \in live
=============================================================================
