---------------------------- MODULE LoadPromise ----------------------------
(***************************************************************************)
(* What a caller of load_elf may rely on, without the loop.  A call has    *)
(* one of three outcomes: it refuses the file and changes nothing; it      *)
(* places all bytes, the last write to an address wins, and sets the stack *)
(* pointer and the program counter; or it throws at the first byte outside *)
(* the memory, with all earlier bytes placed and no register changed.      *)
(***************************************************************************)
EXTENDS ElfFile

VARIABLE outcome     \* of the last call: of load_elf, or "none" if of step()

Outcomes == {"none", "true", "false", "threw"}

(* Memory m after the stores W of file f.                                  *)
Image(f, W, m) ==
  [ a \in Address |->
      IF \E w \in W : Place(f, w) = a
      THEN Content(f, CHOOSE w \in W :
                        /\ Place(f, w) = a
                        /\ \A v \in W : Place(f, v) = a => v = w \/ Earlier(v, w))
      ELSE m[a] ]

Refuse(f) ==
  /\ ~Accepted(f)
  /\ cpu' = [cpu EXCEPT !.exc = "none"]
  /\ outcome' = "false"

Complete(f) ==
  /\ Accepted(f)
  /\ \A w \in Writes(f) : Fits(f, w)
  /\ cpu' = Started([cpu EXCEPT !.exc = "none",
                                !.mem = Image(f, Writes(f), cpu.mem)], f.entry)
  /\ outcome' = "true"

Fail(f) ==
  /\ Accepted(f)
  /\ \E w \in Writes(f) :
       LET done == {v \in Writes(f) : Earlier(v, w)}
       IN  /\ ~Fits(f, w)
           /\ \A v \in done : Fits(f, v)
           /\ cpu' = [cpu EXCEPT !.exc = "out_of_range",
                                 !.mem = Image(f, done, cpu.mem)]
  /\ outcome' = "threw"

(* Between two loads the host steps the machine, or switches its mode.     *)
Run == Next /\ outcome' = "none"

PromiseInit == Init /\ outcome = "none"

PromiseNext == Run \/ \E f \in Files : Alive /\ (Refuse(f) \/ Complete(f) \/ Fail(f))

Promise == PromiseInit /\ [][PromiseNext]_<<cpu, outcome>>
=============================================================================
