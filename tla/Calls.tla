------------------------------- MODULE Calls -------------------------------
(***************************************************************************)
(* The calling convention on top of the CPU: jsr and bsr save a return     *)
(* address that rts resumes at, link saves a frame pointer that unlk puts  *)
(* back.  The history variable saved records every value such a step left  *)
(* on the stack, as long as no later step has overwritten its four bytes.  *)
(***************************************************************************)
EXTENDS CPU

VARIABLE saved

callVars == <<cpu, saved>>

Slot(s) == MASK_ADDR(ActiveSP(s))

IsCall(i) == i.class = "Jsr" \/ (i.class = "Bcc" /\ i.kind = 1)

Intact(s, f) == \A k \in 0 .. 3 : s.mem[f.slot + k] = cpu.mem[f.slot + k]

(* A call must come back to the instruction after it; link to its caller's *)
(* frame pointer.                                                          *)
NewlySaved(t) ==
  IF ~Ok(t) THEN {}
  ELSE IF IsCall(Decoded)
  THEN {[ kind |-> "call", slot |-> Slot(t), reg |-> REG_PC,
          val |-> MASK(PC(cpu) + Length(Decoded), SIZE_LONG) ]}
  ELSE IF Decoded.class = "Link"
  THEN {[ kind |-> "link", slot |-> MASK_ADDR(ActiveSP(cpu) - SIZE_LONG),
          reg |-> Decoded.dest_reg,
          val |-> get(cpu, Decoded.dest_reg, SIZE_LONG) ]}
  ELSE {}

CallsInit == Init /\ saved = {}

CallsNext ==
  /\ Step
  /\ saved' = {f \in saved : Intact(cpu', f)} \cup
              IF Ok(Fetched.st) THEN NewlySaved(cpu') ELSE {}

CallsSpec == CallsInit /\ [][CallsNext]_callVars
-----------------------------------------------------------------------------
(***************************************************************************)
(* An rts that finds the stack pointer at a return address some call saved *)
(* and nothing has overwritten continues behind that call, with the slot   *)
(* popped (jsr.cpp, bcc.cpp, rts.cpp).                                     *)
(***************************************************************************)
RtsResumesCaller ==
  [][ \A f \in saved :
        (/\ Ok(Fetched.st) /\ Decoded.class = "Rts" /\ Ok(cpu')
         /\ f.kind = "call" /\ f.slot = Slot(cpu))
        => /\ PC(cpu') = f.val
           /\ ActiveSP(cpu') = MASK(ActiveSP(cpu) + SIZE_LONG, SIZE_LONG) ]_callVars

(***************************************************************************)
(* unlk through a frame pointer that still points at what link saved gives *)
(* the register its old value back and drops the frame (link.cpp,          *)
(* unlk.cpp), also when the frame pointer is A7 itself.                    *)
(***************************************************************************)
UnlkRestoresFrame ==
  [][ \A f \in saved :
        (/\ Ok(Fetched.st) /\ Decoded.class = "Unlk" /\ Ok(cpu')
         /\ f.kind = "link" /\ f.reg = Decoded.dest_reg
         /\ f.slot = MASK_ADDR(get(cpu, f.reg, SIZE_LONG)))
        => /\ get(cpu', f.reg, SIZE_LONG) = f.val
           /\ MASK_ADDR(ActiveSP(cpu')) = MASK_ADDR(f.slot + SIZE_LONG) ]_callVars
=============================================================================
