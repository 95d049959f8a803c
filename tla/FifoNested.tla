----------------------------- MODULE FifoNested -----------------------------
(***************************************************************************)
(* Calls of zf_common_fifo.cpp nested by an interrupt, which runs to its   *)
(* end between any two steps of the call it interrupts.  The execution     *)
(* flags of zf_common_fifo.h are there for this case.  An update of size   *)
(* is a load and a store.  Updates of the flags are one step: when the     *)
(* interrupt returns it has not changed the flags that an update of the    *)
(* interrupted call keeps.  Elements are numbered in the order they are    *)
(* accepted.  Tail reads and null buffers are in Fifo only.  A definition  *)
(* X_Y is a wrong form of X, used to show that a property depends on X.    *)
(***************************************************************************)
EXTENDS Integers

CONSTANTS
  Max,            \* the length of the buffer
  MaxWritten,     \* elements written in a run (bound of the instance)
  Programs        \* what the interrupted context and the interrupt call

Call == {"write", "peek", "clean", "clear"}

ASSUME NestedAssumption ==
  /\ Max \in Nat \ {0}
  /\ MaxWritten \in Nat
  /\ Programs \subseteq [main : SUBSET Call, interrupt : SUBSET Call]

Context == {"main", "interrupt"}
Flag    == {"RESET", "CLEAR", "WRITE", "READ"}
Cell    == 0 .. Max - 1

VARIABLES
  program,                \* the one of Programs that runs
  execution,              \* the flags that are set
  buffer, head, end, size,
  pc,       \* where each context is in its call
  call,     \* the call it is in
  length,   \* its length: asked for, then granted
  reg,      \* size, loaded for an update
  data,     \* what a read copied out
  accepted, \* elements accepted so far
  freed     \* elements freed so far

fifo  == <<execution, buffer, head, end, size>>
count == <<accepted, freed>>
vars  == <<program, fifo, count, pc, call, length, reg, data>>

Wrap(i) == i % Max

(* The interrupted context stands still until the interrupt has returned.  *)
At(c, place) ==
  /\ pc[c] = place
  /\ c = "main" => pc["interrupt"] = "idle"
Goto(c, place) == pc' = [pc EXCEPT ![c] = place]
Local == <<program, call, length, reg, data>>

Begin(c) ==
  /\ At(c, "idle")
  /\ \E f \in program[c], n \in 1 .. Max :
       /\ f = "write" => accepted + n <= MaxWritten
       /\ call' = [call EXCEPT ![c] = f]
       /\ length' = [length EXCEPT ![c] = n]
       /\ Goto(c, CASE f = "write" -> "write" [] f = "clear" -> "clear" [] OTHER -> "read")
  /\ UNCHANGED <<program, fifo, count, reg, data>>

-----------------------------------------------------------------------------
(* fifo_write_buffer and fifo_write_element.                               *)
WriteTest_None(c) == TRUE
WriteTest(c) == execution \cap {"RESET", "WRITE"} = {}

WriteEnter(c) ==
  /\ At(c, "write")
  /\ IF WriteTest(c)
       THEN execution' = execution \cup {"WRITE"} /\ Goto(c, "room")
       ELSE UNCHANGED execution /\ Goto(c, "idle")
  /\ UNCHANGED <<buffer, head, end, size, count, Local>>

HasRoom(c) == length[c] <= size

WriteRoom(c) ==
  /\ At(c, "room")
  /\ Goto(c, IF HasRoom(c) THEN "store" ELSE "written")
  /\ UNCHANGED <<fifo, count, Local>>

WriteCopy(c) ==
  /\ At(c, "store")
  /\ buffer' = [k \in Cell |-> LET i == Wrap(k - head + Max)
                               IN IF i < length[c] THEN accepted + i + 1 ELSE buffer[k]]
  /\ Goto(c, "head")
  /\ UNCHANGED <<execution, head, end, size, count, Local>>

WriteHead(c) ==
  /\ At(c, "head")
  /\ head' = Wrap(head + length[c])
  /\ Goto(c, "loadRoom")
  /\ UNCHANGED <<execution, buffer, end, size, count, Local>>

LoadSize(c, from, to) ==
  /\ At(c, from)
  /\ reg' = [reg EXCEPT ![c] = size]
  /\ Goto(c, to)
  /\ UNCHANGED <<program, fifo, count, call, length, data>>

WriteSize(c) ==
  /\ At(c, "shrink")
  /\ size' = reg[c] - length[c]
  /\ accepted' = accepted + length[c]
  /\ Goto(c, "written")
  /\ UNCHANGED <<execution, buffer, head, end, freed, Local>>

WriteLeave(c) ==
  /\ At(c, "written")
  /\ execution' = execution \ {"WRITE"}
  /\ Goto(c, "idle")
  /\ UNCHANGED <<buffer, head, end, size, count, Local>>

-----------------------------------------------------------------------------
(* fifo_read_buffer and fifo_read_element.                                 *)
ReadTest_NoClear(c) == "RESET" \notin execution
ReadTest(c) == execution \cap {"RESET", "CLEAR"} = {}

ReadEnter(c) ==
  /\ At(c, "read")
  /\ Goto(c, IF ReadTest(c) THEN "grant" ELSE "idle")
  /\ UNCHANGED <<fifo, count, Local>>

(* An empty FIFO is left at once, and the READ flag reset all the same.    *)
ReadGrant(c) ==
  /\ At(c, "grant")
  /\ LET used == Max - size IN
       IF used = 0
         THEN /\ execution' = execution \ {"READ"}
              /\ Goto(c, "idle")
              /\ UNCHANGED length
         ELSE /\ execution' = execution \cup {"READ"}
              /\ length' = [length EXCEPT ![c] = IF @ > used THEN used ELSE @]
              /\ Goto(c, "copy")
  /\ UNCHANGED <<buffer, head, end, size, count, program, call, reg, data>>

ReadCopy(c) ==
  /\ At(c, "copy")
  /\ data' = [data EXCEPT ![c] = [i \in 1 .. length[c] |-> buffer[Wrap(end + i - 1)]]]
  /\ Goto(c, "copied")
  /\ UNCHANGED <<program, fifo, count, call, length, reg>>

ReadLeave(c) ==
  /\ At(c, "copied")
  /\ execution' = execution \ {"READ"}
  /\ Goto(c, IF call[c] = "clean" THEN "clean" ELSE "idle")
  /\ UNCHANGED <<buffer, head, end, size, count, Local>>

(* The clean half.  Its test compares the flags with == where the others   *)
(* mask them with &, and the read before it has reset the READ flag, that  *)
(* of a call it interrupts included.                                       *)
CleanTest(c) == execution # {"RESET", "CLEAR", "READ"}

CleanEnter(c) ==
  /\ At(c, "clean")
  /\ IF CleanTest(c)
       THEN execution' = execution \cup {"CLEAR"} /\ Goto(c, "end")
       ELSE UNCHANGED execution /\ Goto(c, "idle")
  /\ UNCHANGED <<buffer, head, end, size, count, Local>>

CleanEnd(c) ==
  /\ At(c, "end")
  /\ end' = Wrap(end + length[c])
  /\ Goto(c, "loadUsed")
  /\ UNCHANGED <<execution, buffer, head, size, count, Local>>

CleanSize(c) ==
  /\ At(c, "grow")
  /\ size' = reg[c] + length[c]
  /\ freed' = freed + length[c]
  /\ Goto(c, "cleaned")
  /\ UNCHANGED <<execution, buffer, head, end, accepted, Local>>

CleanLeave(c) ==
  /\ At(c, "cleaned")
  /\ execution' = execution \ {"CLEAR"}
  /\ Goto(c, "idle")
  /\ UNCHANGED <<buffer, head, end, size, count, Local>>

-----------------------------------------------------------------------------
(* fifo_clear, which tests no flag and resets them all.                    *)
ClearEnter(c) ==
  /\ At(c, "clear")
  /\ execution' = execution \cup {"RESET"}
  /\ Goto(c, "reset")
  /\ UNCHANGED <<buffer, head, end, size, count, Local>>

ClearHead(c) ==
  /\ At(c, "reset")
  /\ head' = 0
  /\ Goto(c, "resetEnd")
  /\ UNCHANGED <<execution, buffer, end, size, count, Local>>

ClearEnd(c) ==
  /\ At(c, "resetEnd")
  /\ end' = 0
  /\ Goto(c, "resetSize")
  /\ UNCHANGED <<execution, buffer, head, size, count, Local>>

ClearSize(c) ==
  /\ At(c, "resetSize")
  /\ size' = Max
  /\ freed' = accepted
  /\ Goto(c, "fill")
  /\ UNCHANGED <<execution, buffer, head, end, accepted, Local>>

ClearLeave(c) ==
  /\ At(c, "fill")
  /\ buffer' = [k \in Cell |-> 0]
  /\ execution' = {}
  /\ Goto(c, "idle")
  /\ UNCHANGED <<head, end, size, count, Local>>

-----------------------------------------------------------------------------
Init ==
  /\ program \in Programs
  /\ execution = {}
  /\ buffer = [k \in Cell |-> 0]
  /\ head = 0 /\ end = 0 /\ size = Max
  /\ pc = [c \in Context |-> "idle"]
  /\ call = [c \in Context |-> "peek"]
  /\ length = [c \in Context |-> 0]
  /\ reg = [c \in Context |-> 0]
  /\ data = [c \in Context |-> << >>]
  /\ accepted = 0 /\ freed = 0

Write(c) ==
  \/ WriteEnter(c) \/ WriteRoom(c) \/ WriteCopy(c) \/ WriteHead(c)
  \/ LoadSize(c, "loadRoom", "shrink") \/ WriteSize(c) \/ WriteLeave(c)

Read(c) == ReadEnter(c) \/ ReadGrant(c) \/ ReadCopy(c) \/ ReadLeave(c)

Clean(c) ==
  \/ CleanEnter(c) \/ CleanEnd(c) \/ LoadSize(c, "loadUsed", "grow")
  \/ CleanSize(c) \/ CleanLeave(c)

Clear(c) == ClearEnter(c) \/ ClearHead(c) \/ ClearEnd(c) \/ ClearSize(c) \/ ClearLeave(c)

Next == \E c \in Context : Begin(c) \/ Write(c) \/ Read(c) \/ Clean(c) \/ Clear(c)

Spec == Init /\ [][Next]_vars

-----------------------------------------------------------------------------
(* Type invariant of the fields and the places.                            *)
TypeOK ==
  /\ execution \subseteq Flag
  /\ buffer \in [Cell -> 0 .. MaxWritten]
  /\ head \in Cell
  /\ end \in Cell
  /\ size \in 0 .. Max
  /\ pc \in [Context -> {"idle", "write", "room", "store", "head", "loadRoom", "shrink",
                         "written", "read", "grant", "copy", "copied", "clean", "end",
                         "loadUsed", "grow", "cleaned", "clear", "reset", "resetEnd",
                         "resetSize", "fill"}]

(* Every read, nested or interrupted by the calls of this instance, copies *)
(* out the oldest elements, in order and none twice.                       *)
ReadsOldest ==
  \A c \in Context :
    pc[c] = "copied" => data[c] = [i \in 1 .. length[c] |-> freed + i]

(* With no call under way, no flag is left set and the indices and the     *)
(* size account for every element accepted and not freed.                  *)
QuietAgrees ==
  (\A c \in Context : pc[c] = "idle")
    => /\ execution = {}
       /\ size = Max - (accepted - freed)
       /\ head = Wrap(end + (Max - size))

(* zf_common_fifo.h:59 says a read and clean does not run during a read:   *)
(* the interrupt frees nothing while the interrupted call is copying out.  *)
CleanExcludesRead ==
  pc["main"] \in {"copy", "copied"} => pc["interrupt"] \notin {"end", "loadUsed", "grow"}
=============================================================================
