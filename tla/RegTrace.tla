------------------------------ MODULE RegTrace ------------------------------
(***************************************************************************)
(* Register tracing along one path of an exploration, beside a machine     *)
(* that really executes the path: applyMov, applyPush, applyPop, the       *)
(* registers an instruction is said to touch (touchedRegs), what is kept   *)
(* over a call, and the interrupts that end a path.                        *)
(*                                                                         *)
(* The machine is what the tracing approximates; it is in no source file.  *)
(* The places where the tracing is known to lose touch with the machine    *)
(* are recorded in stale, so that it can be said that there are no others. *)
(* Flags are never asked for and are left out; offsets are left out too.   *)
(***************************************************************************)
EXTENDS Registers, FiniteSets

CONSTANTS CodeBase,    \* the segment of the path
          StackBase,   \* the stack segment of the program
          CalleeBases, \* bound: the segments that are called
          ImageWords,  \* words of the image, by the segment they are read in
          ExitFns,     \* functions of INT 21 that end the program
          MaxStack     \* bound: words on the machine's stack, and on the simulated one

ASSUME TraceAssumption ==
  /\ 0 \in ExitFns /\ MaxStack \in Nat
  /\ CodeBase \in WordVals /\ StackBase \in WordVals /\ CalleeBases \subseteq WordVals
  /\ DOMAIN ImageWords \subseteq WordVals /\ \A s \in DOMAIN ImageWords : ImageWords[s] \in WordVals

VARIABLES pc,       \* "run", "exit" (a non-returning interrupt), "end" or "failed"
          traced,   \* CpuState of the path
          mach,     \* the machine's registers
          mstack,   \* the machine's stack, newest word first
          stale,    \* registers whose known value is left over from before
          sstale,   \* likewise, for the words of the simulated stack
          stored    \* the segment the last instruction made known

trace == <<pc, traced, mach, mstack, stale, sstale, stored>>

SegTypeOf == [DS |-> "DATA", ES |-> "DATA", SS |-> "STACK"]
NotStored == [reg |-> "NONE", type |-> "NONE", base |-> 0]

(* The smallest registers r is made of. *)
Units(r) ==
  IF r \in DOMAIN Parent \cup {"NONE"} THEN {r}
  ELSE IF \E b \in ByteRegs : Parent[b] = r THEN {b \in ByteRegs : Parent[b] = r} ELSE {r}
UnitsOf(rs) == (UNION {Units(r) : r \in rs}) \cap Regs

Init ==
  /\ pc = "run"
  /\ traced \in {EntryState(CodeBase, StackBase, same) : same \in BOOLEAN}
  /\ mach \in {f \in Files : f["CS"] = CodeBase /\ ("SS" \in WordRegs => f["SS"] = StackBase)}
  /\ mstack = << >>
  /\ stale = {} /\ sstale = << >> /\ stored = NotStored

Run == pc = "run"

(* What is known of d now holds what was stale or not. *)
Refreshed(d, isStale) ==
  IF isStale THEN stale \cup UnitsOf({d}) ELSE stale \ UnitsOf({d})

(* A segment register that was set makes its segment known. *)
StoredBefore(d, v) ==
  IF d \in DOMAIN SegTypeOf
  THEN [reg |-> d, type |-> SegTypeOf[d], base |-> Value(traced, d)] ELSE NotStored
Stored(d, v) ==
  IF d \in DOMAIN SegTypeOf THEN [reg |-> d, type |-> SegTypeOf[d], base |-> v] ELSE NotStored

-----------------------------------------------------------------------------
(* applyMov.  A move whose source is not known leaves its destination as   *)
(* it was traced, value and all.                                           *)

Sets(d, v, isStale) ==
  /\ traced' = SetValue(traced, d, v)
  /\ stale' = Refreshed(d, isStale)
  /\ stored' = Stored(d, v)

Keeps(d) ==
  /\ stale' = stale \cup UnitsOf({d}) /\ stored' = NotStored /\ UNCHANGED traced

MovImm(d, v) ==
  /\ Run
  /\ Sets(d, v, FALSE) /\ mach' = Set(mach, d, v)
  /\ UNCHANGED <<pc, mstack, sstale>>

MovReg(d, s) ==
  /\ Run
  /\ mach' = Set(mach, d, Get(mach, s))
  /\ IF IsKnown(traced, s) THEN Sets(d, Value(traced, s), UnitsOf({s}) \cap stale # {})
                           ELSE Keeps(d)
  /\ UNCHANGED <<pc, mstack, sstale>>

(* What the image holds at [0] of the segment, as the tracing reads it; the *)
(* machine finds v there, the program may have written to it since.         *)
MovMem(d, seg, v) ==
  /\ Run
  /\ mach' = Set(mach, d, v)
  /\ IF seg # "SS" /\ IsKnown(traced, seg) /\ Value(traced, seg) \in DOMAIN ImageWords
     THEN LET w == ImageWords[Value(traced, seg)]
              read == IF d \in ByteRegs THEN Low(w) ELSE w
          IN Sets(d, read, TRUE)
     ELSE Keeps(d)
  /\ UNCHANGED <<pc, mstack, sstale>>

(* A move from any other operand. *)
MovOther(d, v) ==
  /\ Run
  /\ mach' = Set(mach, d, v) /\ Keeps(d)
  /\ UNCHANGED <<pc, mstack, sstale>>

-----------------------------------------------------------------------------
(* applyPush and applyPop: words of unknown value are not kept, they empty *)
(* the simulated stack.                                                    *)

PushReg(r) ==
  /\ Run /\ Len(mstack) < MaxStack /\ Len(traced.stack) < MaxStack
  /\ mstack' = <<Get(mach, r)>> \o mstack
  /\ IF IsKnown(traced, r)
     THEN /\ traced' = [traced EXCEPT !.stack = <<Value(traced, r)>> \o @]
          /\ sstale' = <<UnitsOf({r}) \cap stale # {}>> \o sstale
     ELSE traced' = [traced EXCEPT !.stack = << >>] /\ sstale' = << >>
  /\ stored' = NotStored /\ UNCHANGED <<pc, mach, stale>>

PushOther(v) ==
  /\ Run /\ Len(mstack) < MaxStack
  /\ mstack' = <<v>> \o mstack
  /\ traced' = [traced EXCEPT !.stack = << >>] /\ sstale' = << >>
  /\ stored' = NotStored /\ UNCHANGED <<pc, mach, stale>>

(* The machine may pop what was on its stack before the path began. *)
Popped == IF mstack = << >> THEN WordVals ELSE {Head(mstack)}
Below == IF mstack = << >> THEN << >> ELSE Tail(mstack)

(* A pop into r, a register or memory ("NONE"). *)
Pop(r, v) ==
  /\ Run
  /\ mach' = Set(mach, r, v) /\ mstack' = Below
  /\ IF traced.stack = << >>
     THEN Keeps(r) /\ UNCHANGED sstale
     ELSE LET w == Head(traced.stack)
          IN /\ traced' = [SetValue(traced, r, w) EXCEPT !.stack = Tail(@)]
             /\ stale' = Refreshed(r, Head(sstale))
             /\ sstale' = Tail(sstale)
             /\ stored' = Stored(r, w)
  /\ UNCHANGED pc
PopAny == \E r \in (WordRegs \ {"CS"}) \cup {"NONE"} : \E v \in Popped : Pop(r, v)

(* Instructions that move the machine's stack and are not followed: PUSHF, *)
(* POPF, arithmetic on SP.  The simulated stack is left as it is.          *)
MoveStack ==
  /\ Run
  /\ \/ \E v \in WordVals : Len(mstack) < MaxStack /\ mstack' = <<v>> \o mstack
     \/ mstack # << >> /\ mstack' = Tail(mstack)
  /\ sstale' = [i \in DOMAIN sstale |-> TRUE]
  /\ stored' = NotStored /\ UNCHANGED <<pc, traced, mach, stale>>

-----------------------------------------------------------------------------
(* touchedRegs: which registers an instruction of class c with operands a  *)
(* and b changes, for every class that is not a branch, move, push or pop. *)
(* "NONE" is an operand that is no register; rep is a REP prefix, which is *)
(* not looked at where the table already has the answer.                   *)

TouchFirst == {"add", "or", "adc", "sbb", "and", "sub", "xor", "inc", "dec", "lea",
               "in", "rol", "ror", "shl", "shr", "not", "neg"}
TouchBoth == {"xchg", "movsb"}
TouchNone == {"cmp", "nop", "out", "fpu", "lodsw", "sar", "mul8", "mul16"}
Divisions == {"div8", "div16", "idiv8", "idiv16", "imul8", "imul16"}
Strings == {"movsb", "movsw", "cmpsb", "cmpsw", "stosb", "stosw", "lodsb", "lodsw",
            "scasb", "scasw"}

Implicit(c, a) ==
  CASE c \in {"aaa", "aad", "aam", "aas"} -> {"AL", "AH"}
    [] c \in {"div8", "idiv8"} -> {"AL", "AH"}
    [] c \in {"imul8"} -> {"AX"}
    [] c \in {"div16", "idiv16", "imul16"} -> {"AX", "DX"}
    [] c = "int" -> {"AX", "BX", "CX", "DX", "SI", "DI"}
    [] c \in {"cbw", "lahf"} -> {"AH"}
    [] c \in {"cmpsb", "cmpsw", "movsw"} -> {"SI", "DI"}
    [] c = "cwd" -> {"DX"}
    [] c \in {"daa", "das", "xlat", "stosb", "stosw"} -> {"AL"}
    [] c = "lds" -> {a, "DS"}
    [] c = "les" -> {a, "ES"}
    [] c = "lodsb" -> {"AL", "SI"}
    [] c \in {"scasb", "scasw"} -> {"DI"}
    [] c \in {"rcl", "rcr"} -> {a}
    [] OTHER -> {}    \* flags and SP only

Counted(c, rep) == rep /\ c \notin TouchNone \cup Divisions

TouchedNoDS(c, a, b, rep) == (IF c \in TouchFirst THEN {a} ELSE Implicit(c, a)) \ {"DS"}
Touched(c, a, b, rep) ==
  (IF c \in TouchFirst THEN {a}
   ELSE IF c \in TouchBoth THEN {a, b}
   ELSE IF c \in TouchNone THEN {}
   ELSE Implicit(c, a))
  \cup IF Counted(c, rep) THEN {"CX"} ELSE {}

(* What the 8086 changes, and of that what the table above is known to     *)
(* miss: MUL, SAR, LODSW, MOVSB and the DI of STOS have wrong entries, and *)
(* an interrupt may return any register.                                   *)
Missed(c, a, rep) ==
  CASE c = "mul8" -> {"AX"}
    [] c = "mul16" -> {"AX", "DX"}
    [] c = "sar" -> {a}
    [] c = "lodsw" -> {"AX", "SI"} \cup IF rep THEN {"CX"} ELSE {}
    [] c = "movsb" -> {"SI", "DI"}
    [] c \in {"stosb", "stosw"} -> {"DI"}
    [] c = "int" -> {"BP", "ES", "DS"}
    [] OTHER -> {}

Written(c, a, b, rep) ==
  Missed(c, a, rep)
  \cup (IF rep THEN {"CX"} ELSE {})
  \cup (CASE c \in TouchFirst \cup {"rcl", "rcr"} -> {a}
           [] c = "xchg" -> {a, b}
           [] c \in {"stosb", "stosw"} -> {"DI"}
           [] c \in {"aad", "aam", "aaa", "aas", "div8", "idiv8", "imul8"} -> {"AX"}
           [] c \in {"div16", "idiv16", "imul16"} -> {"AX", "DX"}
           [] c = "int" -> {"AX", "BX", "CX", "DX", "SI", "DI"}
           [] c \in {"cbw", "lahf"} -> {"AH"}
           [] c \in {"daa", "das", "xlat"} -> {"AL"}
           [] c \in {"cmpsb", "cmpsw", "movsw"} -> {"SI", "DI"}
           [] c = "cwd" -> {"DX"}
           [] c = "lds" -> {a, "DS"}
           [] c = "les" -> {a, "ES"}
           [] c = "lodsb" -> {"AL", "SI"}
           [] c \in {"scasb", "scasw"} -> {"DI"}
           [] OTHER -> {})

(* The machine changes the units rs, and nothing else. *)
Writes(rs) ==
  LET words == {w \in WordRegs : UnitsOf({w}) \cap rs # {}}
  IN \E f \in [words -> WordVals] :
       /\ mach' = [w \in WordRegs |-> IF w \in words THEN f[w] ELSE mach[w]]
       /\ \A u \in UnitsOf(words) \ rs : Get(mach', u) = Get(mach, u)

Classes == TouchFirst \cup TouchBoth \cup TouchNone \cup Divisions \cup Strings
           \cup {"aaa", "aad", "aam", "aas", "cbw", "lahf", "cwd", "daa", "das", "xlat",
                 "lds", "les", "rcl", "rcr", "test", "int"}

(* Two operands have one size, and only moves name a segment register.     *)
SameSize(a, b) == (a \in ByteRegs) = (b \in ByteRegs)
SegRegs == {"CS", "DS", "ES", "SS"}
DataRegs == Regs \ SegRegs
Operands(c) ==
  CASE c = "xchg" -> {ops \in DataRegs \X DataRegs : SameSize(ops[1], ops[2])}
    [] c \in {"lds", "les", "lea"} -> (DataRegs \ ByteRegs) \X {"NONE"}
    [] c \in TouchFirst \cup {"sar", "rcl", "rcr"} -> (DataRegs \cup {"NONE"}) \X {"NONE"}
    [] OTHER -> {<<"NONE", "NONE">>}

(* What an instruction does, as far as the registers kept here go.         *)
Effect(c, a, b, rep) ==
  [touched |-> Touched(c, a, b, rep) \cap Regs,
   written |-> UnitsOf(Written(c, a, b, rep)),
   missed  |-> UnitsOf(Missed(c, a, rep))]
Prefixed(c) == IF c \in Strings THEN BOOLEAN ELSE {FALSE}
EffectsOf(c) == {Effect(c, ops[1], ops[2], rep) : ops \in Operands(c), rep \in Prefixed(c)}
Effects == UNION {EffectsOf(c) : c \in Classes}

Follow(e) ==
  /\ traced' = SetAllUnknown(traced, e.touched)
  /\ Writes(e.written)
  /\ stale' = stale \cup e.missed
  /\ stored' = NotStored /\ UNCHANGED <<pc, mstack, sstale>>

Execute == Run /\ \E e \in Effects : Follow(e)

(* INT 3 and INTO are classes the table sends to the special cases, where  *)
(* they are unknown: a CpuError, and the path is rolled back as bad code.  *)
ExecuteTrap ==
  /\ Run /\ pc' = "failed"
  /\ stored' = NotStored /\ UNCHANGED <<traced, mach, mstack, stale, sstale>>

-----------------------------------------------------------------------------
(* Interrupts, branches and the end of the path.                           *)

Stops(at) ==
  /\ pc' = at /\ stored' = NotStored /\ UNCHANGED <<traced, mach, mstack, stale, sstale>>

(* INT 21, other interrupts are executed.  A function that is not known    *)
(* reads as 0, "terminate".                                                *)
Interrupt ==
  /\ Run
  /\ IF Value(traced, "AH") \in ExitFns
     THEN Stops("exit")
     ELSE Get(mach, "AH") \notin ExitFns /\ Follow(Effect("int", "NONE", "NONE", FALSE))

(* A return, INT 20, or INT 27 where DX is known to be what it takes.      *)
EndOfPath == Run /\ Stops("end")

(* LOOP is a branch: its count is not followed. *)
Loop ==
  /\ Run
  /\ Writes(UnitsOf({"CX"})) /\ stale' = stale \cup UnitsOf({"CX"})
  /\ stored' = NotStored /\ UNCHANGED <<pc, traced, mstack, sstale>>

(* The path enters a callee with what was known at the call, simulated     *)
(* stack included: the return address is not on it.  CS becomes the base   *)
(* seg of the search point, which for a far call is another one.           *)
CallInto(v, seg) ==
  /\ Run /\ Len(mstack) < MaxStack
  /\ mstack' = <<v>> \o mstack
  /\ mach' = Set(mach, "CS", seg) /\ traced' = SetValue(traced, "CS", seg)
  /\ sstale' = [i \in DOMAIN sstale |-> TRUE]
  /\ stored' = NotStored /\ UNCHANGED <<pc, stale>>

(* The path goes on behind a call.  "every register can be modified after  *)
(* returning from a call, except for CS, but let's be generous with DS and *)
(* SS" (analysis.cpp:496).                                                 *)
Kept(s, r, keep) == IF r \in WordRegs /\ IsKnown(s, r) THEN SetValue(keep, r, Value(s, r)) ELSE keep
BehindCall(s) ==
  LET cs == SetValue(NewState, "CS", Value(s, "CS"))
  IN Kept(s, "SS", Kept(s, "DS", cs))

CallOver ==
  /\ Run
  /\ traced' = BehindCall(traced) /\ sstale' = << >>
  /\ Writes(UnitsOf(WordRegs \ {"CS"})) /\ mstack' = << >>
  /\ stale' = stale \cup UnitsOf({"DS", "SS"})
  /\ stored' = NotStored /\ UNCHANGED pc

MovAny ==
  \E d \in Regs \ {"CS"} :
    \/ d \in DataRegs /\ \E v \in Vals(d) : MovImm(d, v)
    \/ \E s \in Regs : SameSize(d, s) /\ {d, s} \cap DataRegs # {} /\ MovReg(d, s)
    \/ \E v \in Vals(d) : MovOther(d, v) \/ \E seg \in SegRegs \cap WordRegs : MovMem(d, seg, v)

PushAny == (\E r \in WordRegs : PushReg(r)) \/ \E v \in WordVals : PushOther(v)

Next ==
  \/ MovAny
  \/ PushAny
  \/ PopAny
  \/ MoveStack
  \/ Execute
  \/ ExecuteTrap
  \/ Interrupt
  \/ EndOfPath
  \/ Loop
  \/ \E v \in WordVals, seg \in CalleeBases : CallInto(v, seg)
  \/ CallOver

Spec == Init /\ [][Next]_trace

-----------------------------------------------------------------------------
(* What is said to be known is what the machine holds, but for what the    *)
(* tracing is known to have lost: a move or a pop it could not follow, a   *)
(* touched register it does not list, memory the program may have changed, *)
(* DS and SS over a call, and the stack after pushes it does not simulate. *)
KnownUnlessStale ==
  /\ \A u \in UnitsOf(WordRegs) \ stale : IsKnown(traced, u) => Get(traced.regs, u) = Get(mach, u)
  /\ \A i \in DOMAIN sstale :
       ~sstale[i] => i \in DOMAIN mstack /\ traced.stack[i] = mstack[i]

(* A segment is made known at the base the machine loads, as data for DS   *)
(* and ES and as stack for SS, unless what was loaded had been lost.       *)
StoredIsLoaded ==
  stored.reg # "NONE" /\ stored.reg \notin stale => stored.base = mach[stored.reg]

(* "interrupts which don't return" (analysis.cpp:538): a path is cut off   *)
(* at a DOS call only where the program really ends.                       *)
CutOnlyAtExit == pc = "exit" => Get(mach, "AH") \in ExitFns
=============================================================================
