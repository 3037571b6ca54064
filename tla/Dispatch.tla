------------------------------ MODULE Dispatch ------------------------------
(***************************************************************************)
(* The run loop of the emulator (avr11.cc) and the interrupt table it      *)
(* shares with the SIGALRM handler of the line clock (kw11.cc).            *)
(*                                                                         *)
(* There is one thread.  The handler may run between any two accesses the  *)
(* thread makes, and then runs to its end (Tick).  The thread takes one    *)
(* table access per step; pc names the next one.  itab is an ordinary      *)
(* object, so the compiler is free to keep a copied value in a register:   *)
(* CopyStore chooses between the value carried over and a fresh load.  It  *)
(* is free to reorder the moves of popirq() as well, and g++ -O2 makes a   *)
(* memmove of them: every slot is loaded and stored in a step of its own,  *)
(* in any order in which no slot is overwritten before it is loaded.       *)
(*                                                                         *)
(* The guest program is the environment: an instruction may leave any      *)
(* priority in the PSW, set or clear the clock's interrupt enable bit,     *)
(* wait, trap, or stop the emulator.                                       *)
(***************************************************************************)
EXTENDS IrqTable

CONSTANTS
  Clock, Rk, Recv, Xmit,  \* the entries the four devices ask interrupt() for
  Uses,                   \* those of them the guest ever enables
  Priorities              \* the processor priorities the guest uses

Sources == {Clock, Rk, Recv, Xmit}

ASSUME DispatchAssumption ==
  /\ Sources \subseteq Entry
  /\ \A e \in Sources : e.vec # 0      \* a slot with vector 0 is free
  /\ Uses \subseteq Sources
  /\ Priorities \subseteq Nat /\ 0 \in Priorities

VARIABLES
  itab,   \* KB11::itab
  cpl,    \* the processor priority, bits 5..7 of the PSW
  ie,     \* interrupt enable, bit 6 of the clock's csr
  pc,     \* where the thread is
  back,   \* where it goes on when interrupt() returns
  job,    \* the entry interrupt() is filing
  i, j,   \* loop indices of interrupt()
  reg,    \* the slot the copying loop of interrupt() holds
  todo,   \* the slots popirq() has not yet loaded the successor of
  held,   \* those it has loaded it for, and not yet stored
  buf     \* the values it holds for them

popping == <<todo, held, buf>>
locals == <<back, job, i, j, reg, popping>>
vars == <<itab, cpl, ie, pc, locals>>

Moving == 0 .. NSlots - 2       \* the slots that get their successor's value

Stopped == {"full", "halt"}     \* std::abort(): on a full table, elsewhere

\* The thread leaves interrupt() or popirq(); their locals are dead.
Leave(to) ==
  /\ pc' = to
  /\ back' = "step" /\ job' = NoEntry /\ reg' = NoEntry
  /\ i' = 0 /\ j' = 0
  /\ todo' = Moving /\ held' = {} /\ buf' = EmptyTable

Goto(to) == pc' = to /\ UNCHANGED locals

Call(e, to) ==
  /\ pc' = "fast" /\ job' = e /\ back' = to
  /\ UNCHANGED <<i, j, reg, popping>>

Init ==
  /\ itab = EmptyTable
  /\ cpl = 0 /\ ie = FALSE
  /\ pc = "step" /\ back = "step" /\ job = NoEntry
  /\ i = 0 /\ j = 0 /\ reg = NoEntry
  /\ todo = Moving /\ held = {} /\ buf = EmptyTable

-----------------------------------------------------------------------------
(* The run loop: loop() and loop0(). *)

\* cpu.step(): one guest instruction, which may end in a trap, in WAIT's
\* pause(), or in std::abort().
Step ==
  /\ pc = "step"
  /\ \/ /\ cpl' \in Priorities
        /\ ie' \in (IF Clock \in Uses THEN BOOLEAN ELSE {FALSE})
        /\ Goto("vec")
     \/ /\ \E to \in {"pause", "fault", "halt"} : Goto(to)
        /\ UNCHANGED <<cpl, ie>>
  /\ UNCHANGED itab

\* itab[0].vec > 0
CheckVec ==
  /\ pc = "vec"
  /\ Goto(IF Free(itab, 0) THEN "rk" ELSE "pri")
  /\ UNCHANGED <<itab, cpl, ie>>

\* Faulty variant: one priority too many is admitted.
CheckPriOffByOne ==
  /\ pc = "pri"
  /\ Goto(IF itab[0].pri + 1 >= cpl THEN "take" ELSE "rk")
  /\ UNCHANGED <<itab, cpl, ie>>

\* itab[0].pri >= priority()
CheckPri ==
  /\ pc = "pri"
  /\ Goto(IF itab[0].pri >= cpl THEN "take" ELSE "rk")
  /\ UNCHANGED <<itab, cpl, ie>>

\* trapat(itab[0].vec): the new PSW comes from guest memory.  A fault while
\* the old state is pushed or the vector is read leaves by longjmp, before
\* popirq() is called.
TakeInterrupt ==
  /\ pc = "take"
  /\ \/ cpl' \in Priorities /\ Goto("pop")
     \/ cpl' = cpl /\ Goto("fault")
  /\ UNCHANGED <<itab, ie>>

\* loop() after a longjmp: trapat(vec), then loop0() from the top.  A trapat
\* that faults again comes back here, which changes nothing.
TakeFault ==
  /\ pc = "fault"
  /\ cpl' \in Priorities
  /\ Goto("step")
  /\ UNCHANGED <<itab, ie>>

\* RK11::step(): a transfer may trap on a bad bus address, or abort.
RkStep ==
  /\ pc = "rk"
  /\ \/ \E to \in {"recv", "fault", "halt"} : Goto(to)
     \/ Rk \in Uses /\ Call(Rk, "recv")
  /\ UNCHANGED <<itab, cpl, ie>>

\* KL11::poll(): first the receiver, then the transmitter.
PollRecv ==
  /\ pc = "recv"
  /\ Goto("xmit") \/ (Recv \in Uses /\ Call(Recv, "xmit"))
  /\ UNCHANGED <<itab, cpl, ie>>

PollXmit ==
  /\ pc = "xmit"
  /\ Goto("step") \/ (Xmit \in Uses /\ Call(Xmit, "step"))
  /\ UNCHANGED <<itab, cpl, ie>>

-----------------------------------------------------------------------------
(* interrupt(), called by the thread. *)

FastPath ==
  /\ pc = "fast"
  /\ pc' = IF Free(itab, 0) THEN "setvec" ELSE "scanpri"
  /\ UNCHANGED <<itab, cpl, ie, locals>>

\* Faulty variant: the search looks one slot too far.
ScanPriTooFar ==
  /\ pc = "scanpri"
  /\ IF i <= NSlots /\ (i < NSlots => ~StopsForPri(itab, i, job))
     THEN i' = i + 1 /\ pc' = pc
     ELSE i' = i /\ pc' = "scanvec"
  /\ UNCHANGED <<itab, cpl, ie, back, job, j, reg, popping>>

ScanPri ==
  /\ pc = "scanpri"
  /\ IF i < NSlots /\ ~StopsForPri(itab, i, job)
     THEN i' = i + 1 /\ pc' = pc
     ELSE i' = i /\ pc' = "scanvec"
  /\ UNCHANGED <<itab, cpl, ie, back, job, j, reg, popping>>

ScanVec ==
  /\ pc = "scanvec"
  /\ IF i < NSlots /\ ~StopsForVec(itab, i, job)
     THEN i' = i + 1 /\ UNCHANGED <<pc, j>>
     ELSE /\ i' = i /\ j' = i + 1
          /\ pc' = IF i >= NSlots THEN "full"
                   ELSE IF i + 1 < NSlots THEN "copy" ELSE "setvec"
  /\ UNCHANGED <<itab, cpl, ie, back, job, reg, popping>>

CopyLoad ==
  /\ pc = "copy"
  /\ reg' = itab[j - 1] /\ pc' = "store"
  /\ UNCHANGED <<itab, cpl, ie, back, job, i, j, popping>>

\* The next round copies the value just stored: from reg, or loaded again.
CopyStore ==
  /\ pc = "store"
  /\ itab' = [itab EXCEPT ![j] = reg]
  /\ j' = j + 1
  /\ pc' \in (IF j + 1 < NSlots THEN {"copy", "store"} ELSE {"setvec"})
  /\ UNCHANGED <<cpl, ie, back, job, i, reg, popping>>

SetVec ==
  /\ pc = "setvec"
  /\ itab' = [itab EXCEPT ![i] = [vec |-> job.vec, pri |-> itab[i].pri]]
  /\ pc' = "setpri"
  /\ UNCHANGED <<cpl, ie, locals>>

SetPri ==
  /\ pc = "setpri"
  /\ itab' = [itab EXCEPT ![i] = [vec |-> itab[i].vec, pri |-> job.pri]]
  /\ Leave(back)
  /\ UNCHANGED <<cpl, ie>>

-----------------------------------------------------------------------------
(* popirq(); loop0() then returns and is entered again. *)

\* Faulty variant: slot 0 is emptied and the others stay where they are.
PopLoadNoShift ==
  /\ pc = "pop"
  /\ \E s \in todo :
       /\ buf' = [buf EXCEPT ![s] = IF s = 0 THEN NoEntry ELSE itab[s]]
       /\ todo' = todo \ {s} /\ held' = held \cup {s}
  /\ UNCHANGED <<itab, cpl, ie, pc, back, job, i, j, reg>>

PopLoad ==
  /\ pc = "pop"
  /\ \E s \in todo :
       /\ buf' = [buf EXCEPT ![s] = itab[s + 1]]
       /\ todo' = todo \ {s} /\ held' = held \cup {s}
  /\ UNCHANGED <<itab, cpl, ie, pc, back, job, i, j, reg>>

\* Faulty variant: a slot may be overwritten before it has been moved.
PopStoreTooEarly ==
  /\ pc = "pop"
  /\ \E s \in held :
       /\ itab' = [itab EXCEPT ![s] = buf[s]]
       /\ buf' = [buf EXCEPT ![s] = NoEntry]
       /\ held' = held \ {s}
  /\ pc' = IF todo \cup held' = {} THEN "lastvec" ELSE "pop"
  /\ UNCHANGED <<cpl, ie, back, job, i, j, reg, todo>>

PopStore ==
  /\ pc = "pop"
  /\ \E s \in held :
       /\ \A r \in todo : r + 1 # s          \* slot s itself has been loaded
       /\ itab' = [itab EXCEPT ![s] = buf[s]]
       /\ buf' = [buf EXCEPT ![s] = NoEntry]
       /\ held' = held \ {s}
  /\ pc' = IF todo \cup held' = {} THEN "lastvec" ELSE "pop"
  /\ UNCHANGED <<cpl, ie, back, job, i, j, reg, todo>>

ClearLastVec ==
  /\ pc = "lastvec"
  /\ itab' = [itab EXCEPT ![NSlots - 1] = [vec |-> 0, pri |-> itab[NSlots - 1].pri]]
  /\ pc' = "lastpri"
  /\ UNCHANGED <<cpl, ie, locals>>

ClearLastPri ==
  /\ pc = "lastpri"
  /\ itab' = [itab EXCEPT ![NSlots - 1] = [vec |-> itab[NSlots - 1].vec, pri |-> 0]]
  /\ Leave("step")
  /\ UNCHANGED <<cpl, ie>>

-----------------------------------------------------------------------------
(* Signals. *)

\* SIGALRM: kw11alarm() calls tick(), which files an interrupt when bit 6 of
\* the csr is set (bit 7, which it also sets, is read only by the guest).  It
\* ends the pause() of a WAIT.
Tick ==
  /\ pc \notin Stopped
  /\ IF ie
     THEN \E p \in 0 .. NSlots :
            /\ Lands(itab, Clock, p)
            /\ IF p = NSlots
               THEN pc' = "full" /\ UNCHANGED itab
               ELSE /\ itab' = Filed(itab, Clock, p)
                    /\ pc' = IF pc = "pause" THEN "vec" ELSE pc
     ELSE pc' = (IF pc = "pause" THEN "vec" ELSE pc) /\ UNCHANGED itab
  /\ UNCHANGED <<cpl, ie, locals>>

\* SIGIO: sigioHandler() leaves the table alone but ends a pause().
InputSignal ==
  /\ pc = "pause"
  /\ Goto("vec")
  /\ UNCHANGED <<itab, cpl, ie>>

\* The process is gone.
Gone == pc \in Stopped /\ UNCHANGED vars

-----------------------------------------------------------------------------

Loop ==
  \/ Step \/ CheckVec \/ CheckPri \/ TakeInterrupt \/ TakeFault
  \/ RkStep \/ PollRecv \/ PollXmit

Interrupt ==
  \/ FastPath \/ ScanPri \/ ScanVec \/ CopyLoad \/ CopyStore
  \/ SetVec \/ SetPri

PopIrq == PopLoad \/ PopStore \/ ClearLastVec \/ ClearLastPri

Next == Loop \/ Interrupt \/ PopIrq \/ Tick \/ InputSignal \/ Gone

Spec == Init /\ [][Next]_vars

(***************************************************************************)
(* The thread runs while it can: nothing blocks it but pause().  The clock *)
(* is periodic.  TakeFault is left out: a trapat() that faults every time  *)
(* never gets the processor out of "fault".                                *)
(***************************************************************************)
Running ==
  \/ Step \/ CheckVec \/ CheckPri \/ TakeInterrupt
  \/ RkStep \/ PollRecv \/ PollXmit \/ Interrupt \/ PopIrq

FairSpec == Spec /\ WF_vars(Running) /\ WF_vars(Tick)

-----------------------------------------------------------------------------

PCs == {"step", "pause", "vec", "pri", "take", "fault", "rk", "recv", "xmit",
        "fast", "scanpri", "scanvec", "copy", "store", "setvec", "setpri",
        "pop", "lastvec", "lastpri"} \cup Stopped

\* Every variable holds what its C++ counterpart can; the indices stay within
\* the bounds their loops give them, so no access leaves the table.
TypeOK ==
  /\ itab \in [Slot -> Entry]
  /\ cpl \in Priorities /\ ie \in BOOLEAN
  /\ pc \in PCs /\ back \in {"step", "recv", "xmit"}
  /\ job \in Sources \cup {NoEntry}
  /\ i \in 0 .. NSlots /\ j \in 0 .. NSlots + 1
  /\ reg \in Entry /\ buf \in [Slot -> Entry]
  /\ todo \subseteq Moving /\ held \subseteq Moving \ todo

(***************************************************************************)
(* The loop reads the vector, the priority and the vector again in three   *)
(* accesses.  Whatever the handler files in between, what is in slot 0     *)
(* when trapat() is called is an interrupt the processor priority admits.  *)
(***************************************************************************)
TakenOutranksCpu ==
  pc = "take" => ~Free(itab, 0) /\ itab[0].pri >= cpl

(***************************************************************************)
(* The table the call in progress leaves behind if nothing interrupts it:  *)
(* interrupt() takes effect when it has chosen its slot, popirq() when it  *)
(* is called.                                                              *)
(***************************************************************************)
Settled ==
  CASE pc \in {"copy", "store"} ->
         [s \in Slot |-> IF s < i THEN itab[s]
                         ELSE IF s = i THEN job ELSE itab[i]]
    [] pc \in {"setvec", "setpri"} -> [itab EXCEPT ![i] = job]
    [] pc \in {"pop", "lastvec", "lastpri"} ->
         [s \in Slot |-> IF s = NSlots - 1 THEN NoEntry
                         ELSE IF s \in todo THEN itab[s + 1]
                         ELSE IF s \in held THEN buf[s] ELSE itab[s]]
    [] OTHER -> itab

Atomic == INSTANCE IrqTableSpec WITH table <- Settled, quiet <- ~ie

(***************************************************************************)
(* The accesses interrupt() and popirq() make, in the order they make      *)
(* them, add up to one filing or one removal while the handler files       *)
(* nothing, whatever it has made of the table before.                      *)
(***************************************************************************)
CallsAreAtomic == Atomic!Spec

(***************************************************************************)
(* The loop looks for work in slot 0 only, so an entry behind a free slot  *)
(* waits although it could be taken.  Only the handler brings that about,  *)
(* and only while popirq() holds a slot it has loaded and not yet stored:  *)
(* no other access of the thread, and no call of the handler at any other  *)
(* point of interrupt(), popirq() or the loop, does.                       *)
(***************************************************************************)
OnlyPopStrands ==
  [][Compact(Settled) /\ ~Compact(Settled)' => Tick /\ held # {}]_vars

\* The guest keeps coming back to priority 0.
GuestServes == []<>(pc = "vec" /\ cpl = 0)

(***************************************************************************)
(* If the guest keeps lowering its priority, an entry the call in progress *)
(* leaves in a table without gaps leads to an interrupt being taken, or to *)
(* the program aborting; also after a fault in trapat(), which jumps past  *)
(* popirq() and leaves the entry in the table.                             *)
(***************************************************************************)
PendingIsServed ==
  GuestServes =>
    (Compact(Settled) /\ (\E s \in Slot : ~Free(Settled, s))
       ~> pc = "take" \/ pc \in Stopped)

=============================================================================
