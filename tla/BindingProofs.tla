--------------------------- MODULE BindingProofs ---------------------------
(***************************************************************************)
(* WorksOnOwnMemory for any number of CPUs, copied states and states       *)
(* without a memory.  The invariant needs only that the states are         *)
(* CPUStates: no operation of the code changes a bound reference.          *)
(***************************************************************************)
EXTENDS Binding, TLAPS

StatesOK == state \in [Objects -> CPUStates]

BindingInv == StatesOK /\ WorksOnOwnMemory

(* The reference of a constructed state is the memory it is given.         *)
LEMMA BoundToFacts ==
  ASSUME NEW m \in Owners \cup {Null}, NEW v \in Value
  PROVE  BoundTo(m, v) \in CPUStates /\ BoundTo(m, v).memory = m
  BY DEF BoundTo, CPUStates

(* operator= (include/cpu_state.hpp) keeps the reference.                  *)
LEMMA AssignedFacts ==
  ASSUME NEW a \in CPUStates, NEW b \in CPUStates
  PROVE  Assigned(a, b) \in CPUStates /\ Assigned(a, b).memory = a.memory
  BY DEF Assigned, CPUStates

(* A new object satisfies the invariant.                                   *)
LEMMA BindingInit == Init => BindingInv
<1> SUFFICES ASSUME Init PROVE BindingInv
  OBVIOUS
<1>1. PICK v \in Value : state = [o \in Objects |-> BoundTo(Null, v)]
  BY DEF Init
<1>2. BoundTo(Null, v) \in CPUStates
  BY BoundToFacts
<1>3. StatesOK
  BY <1>1, <1>2 DEF StatesOK
<1> QED BY <1>3 DEF Init, BindingInv, WorksOnOwnMemory

(* Every operation on the members keeps it.                                *)
LEMMA BindingStep == BindingInv /\ [Next]_vars => BindingInv'
<1> SUFFICES ASSUME BindingInv, [Next]_vars PROVE BindingInv'
  OBVIOUS
<1> USE DEF BindingInv, StatesOK, WorksOnOwnMemory, Objects
<1>1. ASSUME NEW o \in Owners, Construct(o) PROVE BindingInv'
  <2>1. PICK v \in Value : Become(o, BoundTo(o, v))
    BY <1>1 DEF Construct
  <2>2. BoundTo(o, v) \in CPUStates /\ BoundTo(o, v).memory = o
    BY BoundToFacts
  <2>3. state' = [state EXCEPT ![o] = BoundTo(o, v)] /\ live' = live \cup {o}
    BY <2>1 DEF Become
  <2> QED BY <2>2, <2>3, ObjectsAssumption
<1>2. ASSUME NEW o \in Owners, AllocationFails(o) PROVE BindingInv'
  BY <1>2 DEF AllocationFails
<1>3. ASSUME NEW t \in Defaults, ConstructDefault(t) PROVE BindingInv'
  <2>1. PICK v \in Value : Become(t, BoundTo(Null, v))
    BY <1>3 DEF ConstructDefault
  <2>2. BoundTo(Null, v) \in CPUStates
    BY BoundToFacts
  <2>3. state' = [state EXCEPT ![t] = BoundTo(Null, v)] /\ live' = live \cup {t}
    BY <2>1 DEF Become
  <2> QED BY <2>2, <2>3, ObjectsAssumption
<1>4. ASSUME NEW t \in Copies, NEW o \in Owners, Copy(t, o) PROVE BindingInv'
  <2>1. state' = [state EXCEPT ![t] = state[o]] /\ live' = live \cup {t} /\ o \in live
    BY <1>4 DEF Copy, Become
  <2>2. state[o].memory = o
    BY <2>1
  <2> QED BY <2>1, <2>2, ObjectsAssumption
<1>5. ASSUME NEW a \in Objects, NEW b \in Objects, Assign(a, b) PROVE BindingInv'
  <2>1. state' = [state EXCEPT ![a] = Assigned(state[a], state[b])] /\ live' = live
    BY <1>5 DEF Assign
  <2>2. /\ Assigned(state[a], state[b]) \in CPUStates
        /\ Assigned(state[a], state[b]).memory = state[a].memory
    BY AssignedFacts
  <2> QED BY <2>1, <2>2
<1>6. ASSUME NEW o \in Objects, NEW v \in Value, Write(o, v) PROVE BindingInv'
  <2>1. state' = [state EXCEPT ![o] = [state[o] EXCEPT !.registers = v]] /\ live' = live
    BY <1>6 DEF Write
  <2>2. /\ [state[o] EXCEPT !.registers = v] \in CPUStates
        /\ [state[o] EXCEPT !.registers = v].memory = state[o].memory
    BY DEF CPUStates
  <2> QED BY <2>1, <2>2
<1>7. ASSUME NEW o \in Objects, Destroy(o) PROVE BindingInv'
  BY <1>7 DEF Destroy
<1>8. CASE UNCHANGED vars
  BY <1>8 DEF vars
<1> QED BY <1>1, <1>2, <1>3, <1>4, <1>5, <1>6, <1>7, <1>8 DEF Next

(***************************************************************************)
(* Whatever a host does with copies, assignments and destruction, a CPU    *)
(* works on its own memory and a copy on one that exists.                  *)
(***************************************************************************)
THEOREM OwnMemory == Spec => []WorksOnOwnMemory
<1>1. BindingInv => WorksOnOwnMemory
  BY DEF BindingInv
<1> QED BY <1>1, BindingInit, BindingStep, PTL DEF Spec
=============================================================================
