------------------------------- MODULE Loader -------------------------------
(***************************************************************************)
(* load_elf (src/cpu.cpp) as it runs: a loop over the sections and one     *)
(* over the bytes of a section, each byte a store that can throw out of    *)
(* both loops to the caller.  The host may load another file afterwards,   *)
(* or run the machine on what is there.                                    *)
(***************************************************************************)
EXTENDS ElfFile

VARIABLES
  outcome,   \* of the last call, as in LoadPromise
  load,      \* where load_elf is: its file, section k, bytes i already copied
  seen       \* history: the machine as the caller of load_elf last saw it

loaderVars == <<cpu, outcome, load, seen>>

Idle == load.at = "idle"

Sections == load.file.sections

LoaderInit ==
  /\ Init
  /\ outcome = "none"
  /\ \E f \in Files : load = [at |-> "idle", file |-> f, k |-> 1, i |-> 0]
  /\ seen = cpu

(* Faulty variant of Call: the registers are set before the sections are   *)
(* copied.                                                                 *)
CallStartsFirst(f) ==
  /\ Idle /\ Alive
  /\ cpu' = IF Accepted(f) THEN Started([cpu EXCEPT !.exc = "none"], f.entry)
            ELSE [cpu EXCEPT !.exc = "none"]
  /\ seen' = IF Accepted(f) THEN cpu ELSE cpu'
  /\ load' = [at |-> IF Accepted(f) THEN "sections" ELSE "idle",
              file |-> f, k |-> 1, i |-> 0]
  /\ outcome' = IF Accepted(f) THEN outcome ELSE "false"

(* The call, up to the loop: false if the file is not accepted.            *)
Call(f) ==
  /\ Idle /\ Alive
  /\ cpu' = [cpu EXCEPT !.exc = "none"]
  /\ seen' = IF Accepted(f) THEN cpu ELSE cpu'
  /\ load' = [at |-> IF Accepted(f) THEN "sections" ELSE "idle",
              file |-> f, k |-> 1, i |-> 0]
  /\ outcome' = IF Accepted(f) THEN outcome ELSE "false"

(* Faulty variant of NextSection: continue without moving to the next.     *)
NextSectionStuck ==
  /\ load.at = "sections" /\ load.k <= Len(Sections)
  /\ load' = IF Loadable(Sections[load.k])
             THEN [load EXCEPT !.at = "bytes", !.i = 0] ELSE load
  /\ UNCHANGED <<cpu, outcome, seen>>

(* The head of the outer loop: sections that are not loaded are skipped.   *)
NextSection ==
  /\ load.at = "sections" /\ load.k <= Len(Sections)
  /\ load' = IF Loadable(Sections[load.k])
             THEN [load EXCEPT !.at = "bytes", !.i = 0]
             ELSE [load EXCEPT !.k = @ + 1]
  /\ UNCHANGED <<cpu, outcome, seen>>

Stored ==
  MemSet(cpu, ByteAddress(Sections[load.k], load.i + 1), SIZE_BYTE,
         Sections[load.k].data[load.i + 1])

(* One iteration of the inner loop; a throw leaves load_elf.               *)
CopyByte ==
  /\ load.at = "bytes" /\ load.i < Len(Sections[load.k].data)
  /\ cpu' = Stored
  /\ load' = IF Ok(Stored) THEN [load EXCEPT !.i = @ + 1] ELSE [load EXCEPT !.at = "idle"]
  /\ outcome' = IF Ok(Stored) THEN outcome ELSE "threw"
  /\ seen' = IF Ok(Stored) THEN seen ELSE cpu'

EndSection ==
  /\ load.at = "bytes" /\ load.i = Len(Sections[load.k].data)
  /\ load' = [load EXCEPT !.at = "sections", !.k = @ + 1]
  /\ UNCHANGED <<cpu, outcome, seen>>

(* Behind the loops: the registers, and true.                              *)
Finish ==
  /\ load.at = "sections" /\ load.k > Len(Sections)
  /\ cpu' = Started(cpu, load.file.entry)
  /\ load' = [load EXCEPT !.at = "idle"]
  /\ outcome' = "true"
  /\ seen' = cpu'

Loop == NextSection \/ CopyByte \/ EndSection \/ Finish

Host == Idle /\ Next /\ seen' = cpu' /\ outcome' = "none" /\ UNCHANGED load

LoaderNext == (\E f \in Files : Call(f)) \/ Loop \/ Host

(* load_elf runs on the host's thread and waits for nothing.               *)
LoaderSpec == LoaderInit /\ [][LoaderNext]_loaderVars /\ WF_loaderVars(Loop)
-----------------------------------------------------------------------------
(***************************************************************************)
(* Nobody sees the machine while load_elf runs: to its caller it changes   *)
(* when load_elf returns or throws.                                        *)
(***************************************************************************)
Caller == INSTANCE LoadPromise WITH cpu <- seen

(***************************************************************************)
(* The loops of load_elf keep the promise: a refused file changes nothing, *)
(* a load that throws leaves the registers and exactly the bytes before    *)
(* the offending one, a completed load has every byte of the last section  *)
(* to claim it, whatever an earlier load or program left behind.           *)
(***************************************************************************)
KeepsPromise == Caller!Promise

(***************************************************************************)
(* A call of load_elf returns or throws, whatever sections the file has.   *)
(***************************************************************************)
LoadReturns == ~Idle ~> Idle

(* The bytes of the file at address a, in the order they are stored.       *)
At(f, a) == {w \in Writes(f) : Place(f, w) = a}

(***************************************************************************)
(* After load_elf has returned true, in either mode and after any failed   *)
(* load, the next step() fetches the word the file has at its entry, and a *)
(* call can save its return address on the empty stack.                    *)
(***************************************************************************)
ReadyToRun ==
  (outcome = "true" /\ Idle) =>
    LET f == load.file
        e == MASK_ADDR(f.entry)
    IN  /\ \A v \in At(f, e), w \in At(f, e + 1) :
             (e % 2 = 0 /\ At(f, e) = {v} /\ At(f, e + 1) = {w}) =>
               Ok(Fetched.st) /\ Fetched.val = Content(f, v) * Byte + Content(f, w)
        /\ (MemSize % 2 = 0 /\ MemSize >= SIZE_LONG) =>
             Ok(stackPush(cpu, SIZE_LONG, PC(cpu)))
=============================================================================
