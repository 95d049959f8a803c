------------------------- MODULE FifoNested_proofs -------------------------
(***************************************************************************)
(* Nested calls on a buffer of any length, for contexts of which either    *)
(* the interrupt only peeks or neither frees anything.                     *)
(***************************************************************************)
EXTENDS FifoNested, TLAPS

Producers == {"write", "peek"}
SoundProgram(p) ==
  \/ p.interrupt \subseteq {"peek"}
  \/ p.main \subseteq Producers /\ p.interrupt \subseteq Producers
SoundPrograms == \A p \in Programs : SoundProgram(p)

Writing  == {"room", "store", "head", "loadRoom", "shrink", "written"}
Reading  == {"copy", "copied"}
Cleaning == {"end", "loadUsed", "grow", "cleaned"}
Clearing == {"reset", "resetEnd", "resetSize", "fill"}
Places ==
  {"idle", "write", "read", "grant", "clean", "clear"}
    \cup Writing \cup Reading \cup Cleaning \cup Clearing

(* A context is where its call can be, and its call is one of its program. *)
Disciplined(c) ==
  /\ pc[c] \in Writing \cup {"write"} => call[c] = "write"
  /\ pc[c] \in Reading \cup {"read", "grant"} => call[c] \in {"peek", "clean"}
  /\ pc[c] \in Cleaning \cup {"clean"} => call[c] = "clean"
  /\ pc[c] \in Clearing \cup {"clear"} => call[c] = "clear"
  /\ pc[c] # "idle" => call[c] \in program[c]

Control ==
  /\ pc \in [Context -> Places]
  /\ call \in [Context -> Call]
  /\ program \in Programs /\ SoundProgram(program)
  /\ Disciplined("main") /\ Disciplined("interrupt")

(* What the flags say of the two places, and what they keep apart.         *)
FlagsTell ==
  /\ execution \subseteq Flag
  /\ "WRITE" \in execution <=> pc["main"] \in Writing \/ pc["interrupt"] \in Writing
  /\ "CLEAR" \in execution <=> pc["main"] \in Cleaning
  /\ "RESET" \in execution <=> pc["main"] \in Clearing
  /\ "READ" \in execution => pc["main"] \in Reading \/ pc["interrupt"] \in Reading
  /\ ~(pc["main"] \in Writing /\ pc["interrupt"] \in Writing)
  /\ pc["interrupt"] \in Reading \cup {"grant"} => pc["main"] \notin Cleaning \cup Clearing

(* The interrupt neither frees nor clears, and writes only beside a        *)
(* context that does not.                                                  *)
LEMMA Roles ==
  ASSUME Control
  PROVE  /\ pc["interrupt"] \notin Cleaning \cup Clearing \cup {"clean", "clear"}
         /\ pc["interrupt"] \in Writing \cup {"write"} =>
              pc["main"] \notin Cleaning \cup Clearing
         /\ pc["interrupt"] # "idle" => call["interrupt"] # "clean"
<1>1. /\ program["interrupt"] = program.interrupt /\ program["main"] = program.main
      /\ program.interrupt \subseteq Producers
  BY DEF Control, SoundProgram, Producers
<1>2. /\ pc["interrupt"] \in Places /\ pc["main"] \in Places
      /\ pc["interrupt"] # "idle" => call["interrupt"] \in Producers
      /\ pc["main"] # "idle" => call["main"] \in program.main
  BY <1>1 DEF Control, Disciplined, Context
<1>3. /\ pc["interrupt"] \notin Cleaning \cup Clearing \cup {"clean", "clear"}
      /\ pc["interrupt"] # "idle" => call["interrupt"] # "clean"
  BY <1>2 DEF Control, Disciplined, Producers, Cleaning, Clearing
<1>4. ASSUME pc["interrupt"] \in Writing \cup {"write"}
      PROVE  pc["main"] \notin Cleaning \cup Clearing
  <2>1. "write" \in program.interrupt
    BY <1>1, <1>4 DEF Control, Disciplined, Writing
  <2>2. program.main \subseteq Producers
    BY <2>1 DEF Control, SoundProgram
  <2>3. call["main"] \in Producers \/ pc["main"] = "idle"
    BY <1>2, <2>2
  <2> QED
    BY <2>3 DEF Control, Disciplined, Producers, Cleaning, Clearing
<1> QED
  BY <1>3, <1>4

(* A context moves within its call.                                        *)
LEMMA Moves ==
  ASSUME Control, NEW c \in Context, NEW p \in Places, pc' = [pc EXCEPT ![c] = p],
         UNCHANGED <<program, call>>, pc[c] # "idle",
         p \in Writing \cup {"write"} => call[c] = "write",
         p \in Reading \cup {"read", "grant"} => call[c] \in {"peek", "clean"},
         p \in Cleaning \cup {"clean"} => call[c] = "clean",
         p \in Clearing \cup {"clear"} => call[c] = "clear"
  PROVE  Control'
<1>1. pc' \in [Context -> Places]
  BY DEF Control
<1>2. ASSUME NEW d \in Context PROVE Disciplined(d)'
  <2>1. Disciplined(d) /\ Disciplined(c)
    BY DEF Control, Context
  <2>2. CASE d = c
    <3>1. pc'[d] = p
      BY <2>2 DEF Control
    <3> QED
      BY <2>1, <2>2, <3>1 DEF Disciplined
  <2>3. CASE d # c
    <3>1. pc'[d] = pc[d]
      BY <2>3 DEF Control
    <3> QED
      BY <2>1, <3>1 DEF Disciplined
  <2> QED
    BY <2>2, <2>3
<1> QED
  BY <1>1, <1>2 DEF Control, Context

(* A call begins: it is one of the program.                                *)
LEMMA BeginControl ==
  ASSUME Control, NEW c \in Context, Begin(c)
  PROVE  Control'
<1>1. PICK f \in program[c] :
        /\ call' = [call EXCEPT ![c] = f]
        /\ pc' = [pc EXCEPT ![c] = CASE f = "write" -> "write" [] f = "clear" -> "clear"
                                     [] OTHER -> "read"]
        /\ UNCHANGED program
  BY DEF Begin, Goto
<1>2. f \in Call
  <2>1. program \in [main : SUBSET Call, interrupt : SUBSET Call]
    BY NestedAssumption DEF Control
  <2> QED
    BY <2>1 DEF Context
<1>3. PICK p \in Places :
        /\ pc' = [pc EXCEPT ![c] = p]
        /\ p \in {"write", "clear", "read"}
        /\ p = "write" => f = "write"
        /\ p = "clear" => f = "clear"
        /\ p = "read" => f \in {"peek", "clean"}
  BY <1>1, <1>2 DEF Places, Call
<1>4. pc' \in [Context -> Places] /\ call' \in [Context -> Call]
  BY <1>1, <1>2, <1>3 DEF Control
<1>5. ASSUME NEW d \in Context PROVE Disciplined(d)'
  <2>1. Disciplined(d)
    BY DEF Control, Context
  <2>2. CASE d = c
    <3>1. pc'[d] = p /\ call'[d] = f /\ f \in program'[d]
      BY <1>1, <1>3, <2>2 DEF Control
    <3> QED
      BY <1>3, <3>1 DEF Disciplined, Writing, Reading, Cleaning, Clearing
  <2>3. CASE d # c
    <3>1. pc'[d] = pc[d] /\ call'[d] = call[d] /\ program' = program
      BY <1>1, <1>3, <2>3 DEF Control
    <3> QED
      BY <2>1, <3>1 DEF Disciplined
  <2> QED
    BY <2>2, <2>3
<1> QED
  BY <1>1, <1>4, <1>5 DEF Control, Context

(* A write stays within its call.                                           *)
LEMMA WriteControl ==
  ASSUME Control, NEW c \in Context, Write(c)
  PROVE  Control'
<1>1. Disciplined(c)
  BY DEF Control, Context
<1>2. CASE WriteEnter(c)
  BY <1>1, <1>2, Moves DEF WriteEnter, At, Goto, Local, Disciplined, Places,
     Writing, Reading, Cleaning, Clearing
<1>3. CASE WriteRoom(c)
  BY <1>1, <1>3, Moves DEF WriteRoom, At, Goto, Local, Disciplined, Places,
     Writing, Reading, Cleaning, Clearing
<1>4. CASE WriteCopy(c)
  BY <1>1, <1>4, Moves DEF WriteCopy, At, Goto, Local, Disciplined, Places,
     Writing, Reading, Cleaning, Clearing
<1>5. CASE WriteHead(c)
  BY <1>1, <1>5, Moves DEF WriteHead, At, Goto, Local, Disciplined, Places,
     Writing, Reading, Cleaning, Clearing
<1>6. CASE LoadSize(c, "loadRoom", "shrink")
  BY <1>1, <1>6, Moves DEF LoadSize, At, Goto, Local, Disciplined, Places,
     Writing, Reading, Cleaning, Clearing
<1>7. CASE WriteSize(c)
  BY <1>1, <1>7, Moves DEF WriteSize, At, Goto, Local, Disciplined, Places,
     Writing, Reading, Cleaning, Clearing
<1>8. CASE WriteLeave(c)
  BY <1>1, <1>8, Moves DEF WriteLeave, At, Goto, Local, Disciplined, Places,
     Writing, Reading, Cleaning, Clearing
<1> QED
  BY <1>2, <1>3, <1>4, <1>5, <1>6, <1>7, <1>8 DEF Write

(* A read stays within its call.                                            *)
LEMMA ReadControl ==
  ASSUME Control, NEW c \in Context, Read(c)
  PROVE  Control'
<1>1. Disciplined(c)
  BY DEF Control, Context
<1>2. CASE ReadEnter(c)
  BY <1>1, <1>2, Moves DEF ReadEnter, At, Goto, Local, Disciplined, Places,
     Writing, Reading, Cleaning, Clearing
<1>3. CASE ReadGrant(c)
  BY <1>1, <1>3, Moves DEF ReadGrant, At, Goto, Local, Disciplined, Places,
     Writing, Reading, Cleaning, Clearing
<1>4. CASE ReadCopy(c)
  BY <1>1, <1>4, Moves DEF ReadCopy, At, Goto, Local, Disciplined, Places,
     Writing, Reading, Cleaning, Clearing
<1>5. CASE ReadLeave(c)
  BY <1>1, <1>5, Moves DEF ReadLeave, At, Goto, Local, Disciplined, Places,
     Writing, Reading, Cleaning, Clearing
<1> QED
  BY <1>2, <1>3, <1>4, <1>5 DEF Read

(* A clean stays within its call.                                           *)
LEMMA CleanControl ==
  ASSUME Control, NEW c \in Context, Clean(c)
  PROVE  Control'
<1>1. Disciplined(c)
  BY DEF Control, Context
<1>2. CASE CleanEnter(c)
  BY <1>1, <1>2, Moves DEF CleanEnter, At, Goto, Local, Disciplined, Places,
     Writing, Reading, Cleaning, Clearing
<1>3. CASE CleanEnd(c)
  BY <1>1, <1>3, Moves DEF CleanEnd, At, Goto, Local, Disciplined, Places,
     Writing, Reading, Cleaning, Clearing
<1>4. CASE LoadSize(c, "loadUsed", "grow")
  BY <1>1, <1>4, Moves DEF LoadSize, At, Goto, Local, Disciplined, Places,
     Writing, Reading, Cleaning, Clearing
<1>5. CASE CleanSize(c)
  BY <1>1, <1>5, Moves DEF CleanSize, At, Goto, Local, Disciplined, Places,
     Writing, Reading, Cleaning, Clearing
<1>6. CASE CleanLeave(c)
  BY <1>1, <1>6, Moves DEF CleanLeave, At, Goto, Local, Disciplined, Places,
     Writing, Reading, Cleaning, Clearing
<1> QED
  BY <1>2, <1>3, <1>4, <1>5, <1>6 DEF Clean

(* A clear stays within its call.                                           *)
LEMMA ClearControl ==
  ASSUME Control, NEW c \in Context, Clear(c)
  PROVE  Control'
<1>1. Disciplined(c)
  BY DEF Control, Context
<1>2. CASE ClearEnter(c)
  BY <1>1, <1>2, Moves DEF ClearEnter, At, Goto, Local, Disciplined, Places,
     Writing, Reading, Cleaning, Clearing
<1>3. CASE ClearHead(c)
  BY <1>1, <1>3, Moves DEF ClearHead, At, Goto, Local, Disciplined, Places,
     Writing, Reading, Cleaning, Clearing
<1>4. CASE ClearEnd(c)
  BY <1>1, <1>4, Moves DEF ClearEnd, At, Goto, Local, Disciplined, Places,
     Writing, Reading, Cleaning, Clearing
<1>5. CASE ClearSize(c)
  BY <1>1, <1>5, Moves DEF ClearSize, At, Goto, Local, Disciplined, Places,
     Writing, Reading, Cleaning, Clearing
<1>6. CASE ClearLeave(c)
  BY <1>1, <1>6, Moves DEF ClearLeave, At, Goto, Local, Disciplined, Places,
     Writing, Reading, Cleaning, Clearing
<1> QED
  BY <1>2, <1>3, <1>4, <1>5, <1>6 DEF Clear

(* A call that begins raises no flag.                                      *)
LEMMA BeginFlags ==
  ASSUME Control, FlagsTell, NEW c \in Context, Begin(c)
  PROVE  FlagsTell'
<1> DEFINE Busy == Writing \cup Reading \cup Cleaning \cup Clearing \cup {"grant"}
<1>1. UNCHANGED execution /\ pc[c] = "idle" /\ c \in {"main", "interrupt"}
  BY DEF Begin, At, fifo, Context
<1>2. PICK p \in {"write", "clear", "read"} : pc' = [pc EXCEPT ![c] = p]
  BY DEF Begin, Goto
<1>3. p \notin Busy /\ "idle" \notin Busy
  BY DEF Writing, Reading, Cleaning, Clearing
<1>4. \A d \in Context : pc'[d] = pc[d] \/ (pc[d] \notin Busy /\ pc'[d] \notin Busy)
  <2>1. \A d \in Context : IF d = c THEN pc[d] = "idle" /\ pc'[d] = p ELSE pc'[d] = pc[d]
    BY <1>1, <1>2 DEF Control
  <2> HIDE DEF Busy
  <2> QED
    BY <1>3, <2>1
<1>5. /\ \/ pc'["main"] = pc["main"]
         \/ pc["main"] \notin Busy /\ pc'["main"] \notin Busy
      /\ \/ pc'["interrupt"] = pc["interrupt"]
         \/ pc["interrupt"] \notin Busy /\ pc'["interrupt"] \notin Busy
  BY <1>4 DEF Context
<1>6. /\ pc'["main"] \in Writing <=> pc["main"] \in Writing
      /\ pc'["main"] \in Cleaning <=> pc["main"] \in Cleaning
      /\ pc'["main"] \in Clearing <=> pc["main"] \in Clearing
      /\ pc'["main"] \in Reading <=> pc["main"] \in Reading
      /\ pc'["interrupt"] \in Writing <=> pc["interrupt"] \in Writing
      /\ pc'["interrupt"] \in Reading <=> pc["interrupt"] \in Reading
      /\ pc'["interrupt"] \in Reading \cup {"grant"} <=> pc["interrupt"] \in Reading \cup {"grant"}
  BY <1>5
<1> HIDE DEF Busy
<1> QED
  BY <1>1, <1>6, Zenon DEF FlagsTell

(* A write raises WRITE for its own time, and waits for no other.          *)
LEMMA WriteFlags ==
  ASSUME Control, FlagsTell, NEW c \in Context, Write(c)
  PROVE  FlagsTell'
<1>1. pc \in [Context -> Places] /\ (c = "main" \/ c = "interrupt")
  BY DEF Control, Context
<1>2. CASE WriteEnter(c)
  <2>1. CASE WriteTest(c)
    <3>1. /\ pc[c] = "write" /\ pc' = [pc EXCEPT ![c] = "room"]
          /\ execution' = execution \cup {"WRITE"}
          /\ c = "main" => pc["interrupt"] = "idle"
          /\ "WRITE" \notin execution
      BY <1>2, <2>1 DEF WriteEnter, WriteTest, At, Goto, fifo
    <3>2. CASE c = "main"
      <4>1. pc'["main"] = "room" /\ pc'["interrupt"] = "idle"
        BY <1>1, <3>1, <3>2 DEF Context
      <4> QED
        BY <3>1, <3>2, <4>1, Roles DEF FlagsTell, Flag, Writing, Reading, Cleaning, Clearing
    <3>3. CASE c = "interrupt"
      <4>1. pc'["main"] = pc["main"] /\ pc'["interrupt"] = "room"
        BY <1>1, <3>1, <3>3 DEF Context
      <4> QED
        BY <3>1, <3>3, <4>1, Roles DEF FlagsTell, Flag, Writing, Reading, Cleaning, Clearing
    <3> QED
      BY <1>1, <3>2, <3>3
  <2>2. CASE ~WriteTest(c)
    <3>1. /\ pc[c] = "write" /\ pc' = [pc EXCEPT ![c] = "idle"] /\ UNCHANGED execution
          /\ c = "main" => pc["interrupt"] = "idle"
      BY <1>2, <2>2 DEF WriteEnter, WriteTest, At, Goto, fifo
    <3>2. CASE c = "main"
      <4>1. pc'["main"] = "idle" /\ pc'["interrupt"] = "idle"
        BY <1>1, <3>1, <3>2 DEF Context
      <4> QED
        BY <3>1, <3>2, <4>1, Roles DEF FlagsTell, Flag, Writing, Reading, Cleaning, Clearing
    <3>3. CASE c = "interrupt"
      <4>1. pc'["main"] = pc["main"] /\ pc'["interrupt"] = "idle"
        BY <1>1, <3>1, <3>3 DEF Context
      <4> QED
        BY <3>1, <3>3, <4>1, Roles DEF FlagsTell, Flag, Writing, Reading, Cleaning, Clearing
    <3> QED
      BY <1>1, <3>2, <3>3
  <2> QED
    BY <2>1, <2>2
<1>3. CASE WriteRoom(c)
  BY <1>1, <1>3, Roles DEF WriteRoom, fifo, At, Goto, FlagsTell, Flag, Context, Writing, Reading,
     Cleaning, Clearing
<1>4. CASE WriteCopy(c)
  BY <1>1, <1>4, Roles DEF WriteCopy, fifo, At, Goto, FlagsTell, Flag, Context, Writing, Reading,
     Cleaning, Clearing
<1>5. CASE WriteHead(c)
  BY <1>1, <1>5, Roles DEF WriteHead, fifo, At, Goto, FlagsTell, Flag, Context, Writing, Reading,
     Cleaning, Clearing
<1>6. CASE LoadSize(c, "loadRoom", "shrink")
  BY <1>1, <1>6, Roles DEF LoadSize, fifo, At, Goto, FlagsTell, Flag, Context, Writing, Reading,
     Cleaning, Clearing
<1>7. CASE WriteSize(c)
  BY <1>1, <1>7, Roles DEF WriteSize, fifo, At, Goto, FlagsTell, Flag, Context, Writing, Reading,
     Cleaning, Clearing
<1>8. CASE WriteLeave(c)
  BY <1>1, <1>8, Roles DEF WriteLeave, At, Goto, FlagsTell, Flag, Context, Writing, Reading,
     Cleaning, Clearing
<1> QED
  BY <1>2, <1>3, <1>4, <1>5, <1>6, <1>7, <1>8 DEF Write

(* A read raises READ, which a nested one may reset.                       *)
LEMMA ReadFlags ==
  ASSUME Control, FlagsTell, NEW c \in Context, Read(c)
  PROVE  FlagsTell'
<1>1. pc \in [Context -> Places] /\ (c = "main" \/ c = "interrupt")
  BY DEF Control, Context
<1>2. CASE ReadEnter(c)
  <2>1. CASE ReadTest(c)
    <3>1. /\ pc[c] = "read" /\ pc' = [pc EXCEPT ![c] = "grant"] /\ UNCHANGED execution
          /\ c = "main" => pc["interrupt"] = "idle"
          /\ "RESET" \notin execution /\ "CLEAR" \notin execution
      BY <1>2, <2>1 DEF ReadEnter, ReadTest, At, Goto, fifo
    <3>2. CASE c = "main"
      <4>1. pc'["main"] = "grant" /\ pc'["interrupt"] = "idle"
        BY <1>1, <3>1, <3>2 DEF Context
      <4> QED
        BY <3>1, <3>2, <4>1, Roles DEF FlagsTell, Flag, Writing, Reading, Cleaning, Clearing
    <3>3. CASE c = "interrupt"
      <4>1. pc'["main"] = pc["main"] /\ pc'["interrupt"] = "grant"
        BY <1>1, <3>1, <3>3 DEF Context
      <4> QED
        BY <3>1, <3>3, <4>1, Roles DEF FlagsTell, Flag, Writing, Reading, Cleaning, Clearing
    <3> QED
      BY <1>1, <3>2, <3>3
  <2>2. CASE ~ReadTest(c)
    <3>1. /\ pc[c] = "read" /\ pc' = [pc EXCEPT ![c] = "idle"] /\ UNCHANGED execution
          /\ c = "main" => pc["interrupt"] = "idle"
      BY <1>2, <2>2 DEF ReadEnter, ReadTest, At, Goto, fifo
    <3>2. CASE c = "main"
      <4>1. pc'["main"] = "idle" /\ pc'["interrupt"] = "idle"
        BY <1>1, <3>1, <3>2 DEF Context
      <4> QED
        BY <3>1, <3>2, <4>1, Roles DEF FlagsTell, Flag, Writing, Reading, Cleaning, Clearing
    <3>3. CASE c = "interrupt"
      <4>1. pc'["main"] = pc["main"] /\ pc'["interrupt"] = "idle"
        BY <1>1, <3>1, <3>3 DEF Context
      <4> QED
        BY <3>1, <3>3, <4>1, Roles DEF FlagsTell, Flag, Writing, Reading, Cleaning, Clearing
    <3> QED
      BY <1>1, <3>2, <3>3
  <2> QED
    BY <2>1, <2>2
<1>3. CASE ReadGrant(c)
  <2>1. CASE Max - size = 0
    <3>1. /\ pc[c] = "grant" /\ pc' = [pc EXCEPT ![c] = "idle"] /\ execution' = execution \ {"READ"}
          /\ c = "main" => pc["interrupt"] = "idle"
      BY <1>3, <2>1 DEF ReadGrant, At, Goto, fifo
    <3>2. CASE c = "main"
      <4>1. pc'["main"] = "idle" /\ pc'["interrupt"] = "idle"
        BY <1>1, <3>1, <3>2 DEF Context
      <4> QED
        BY <3>1, <3>2, <4>1, Roles DEF FlagsTell, Flag, Writing, Reading, Cleaning, Clearing
    <3>3. CASE c = "interrupt"
      <4>1. pc'["main"] = pc["main"] /\ pc'["interrupt"] = "idle"
        BY <1>1, <3>1, <3>3 DEF Context
      <4> QED
        BY <3>1, <3>3, <4>1, Roles DEF FlagsTell, Flag, Writing, Reading, Cleaning, Clearing
    <3> QED
      BY <1>1, <3>2, <3>3
  <2>2. CASE ~(Max - size = 0)
    <3>1. /\ pc[c] = "grant" /\ pc' = [pc EXCEPT ![c] = "copy"]
          /\ execution' = execution \cup {"READ"}
          /\ c = "main" => pc["interrupt"] = "idle"
      BY <1>3, <2>2 DEF ReadGrant, At, Goto, fifo
    <3>2. CASE c = "main"
      <4>1. pc'["main"] = "copy" /\ pc'["interrupt"] = "idle"
        BY <1>1, <3>1, <3>2 DEF Context
      <4> QED
        BY <3>1, <3>2, <4>1, Roles DEF FlagsTell, Flag, Writing, Reading, Cleaning, Clearing
    <3>3. CASE c = "interrupt"
      <4>1. pc'["main"] = pc["main"] /\ pc'["interrupt"] = "copy"
        BY <1>1, <3>1, <3>3 DEF Context
      <4> QED
        BY <3>1, <3>3, <4>1, Roles DEF FlagsTell, Flag, Writing, Reading, Cleaning, Clearing
    <3> QED
      BY <1>1, <3>2, <3>3
  <2> QED
    BY <2>1, <2>2
<1>4. CASE ReadCopy(c)
  BY <1>1, <1>4, Roles DEF ReadCopy, fifo, At, Goto, FlagsTell, Flag, Context, Writing, Reading,
     Cleaning, Clearing
<1>5. CASE ReadLeave(c)
  BY <1>1, <1>5, Roles DEF ReadLeave, At, Goto, FlagsTell, Flag, Context, Writing, Reading,
     Cleaning, Clearing
<1> QED
  BY <1>2, <1>3, <1>4, <1>5 DEF Read

(* The clean half is the interrupted context's, and raises CLEAR.          *)
LEMMA CleanFlags ==
  ASSUME Control, FlagsTell, NEW c \in Context, Clean(c)
  PROVE  FlagsTell'
<1>1. pc \in [Context -> Places] /\ (c = "main" \/ c = "interrupt")
  BY DEF Control, Context
<1>2. CASE CleanEnter(c)
  <2>1. CASE CleanTest(c)
    <3>1. /\ pc[c] = "clean" /\ pc' = [pc EXCEPT ![c] = "end"]
          /\ execution' = execution \cup {"CLEAR"}
          /\ c = "main" => pc["interrupt"] = "idle"
      BY <1>2, <2>1 DEF CleanEnter, At, Goto, fifo
    <3>2. CASE c = "main"
      <4>1. pc'["main"] = "end" /\ pc'["interrupt"] = "idle"
        BY <1>1, <3>1, <3>2 DEF Context
      <4> QED
        BY <3>1, <3>2, <4>1, Roles DEF FlagsTell, Flag, Writing, Reading, Cleaning, Clearing
    <3>3. CASE c = "interrupt"
      <4>1. pc'["main"] = pc["main"] /\ pc'["interrupt"] = "end"
        BY <1>1, <3>1, <3>3 DEF Context
      <4> QED
        BY <3>1, <3>3, <4>1, Roles DEF FlagsTell, Flag, Writing, Reading, Cleaning, Clearing
    <3> QED
      BY <1>1, <3>2, <3>3
  <2>2. CASE ~CleanTest(c)
    <3>1. /\ pc[c] = "clean" /\ pc' = [pc EXCEPT ![c] = "idle"] /\ UNCHANGED execution
          /\ c = "main" => pc["interrupt"] = "idle"
      BY <1>2, <2>2 DEF CleanEnter, At, Goto, fifo
    <3>2. CASE c = "main"
      <4>1. pc'["main"] = "idle" /\ pc'["interrupt"] = "idle"
        BY <1>1, <3>1, <3>2 DEF Context
      <4> QED
        BY <3>1, <3>2, <4>1, Roles DEF FlagsTell, Flag, Writing, Reading, Cleaning, Clearing
    <3>3. CASE c = "interrupt"
      <4>1. pc'["main"] = pc["main"] /\ pc'["interrupt"] = "idle"
        BY <1>1, <3>1, <3>3 DEF Context
      <4> QED
        BY <3>1, <3>3, <4>1, Roles DEF FlagsTell, Flag, Writing, Reading, Cleaning, Clearing
    <3> QED
      BY <1>1, <3>2, <3>3
  <2> QED
    BY <2>1, <2>2
<1>3. CASE CleanEnd(c)
  BY <1>1, <1>3, Roles DEF CleanEnd, fifo, At, Goto, FlagsTell, Flag, Context, Writing, Reading,
     Cleaning, Clearing
<1>4. CASE LoadSize(c, "loadUsed", "grow")
  BY <1>1, <1>4, Roles DEF LoadSize, fifo, At, Goto, FlagsTell, Flag, Context, Writing, Reading,
     Cleaning, Clearing
<1>5. CASE CleanSize(c)
  BY <1>1, <1>5, Roles DEF CleanSize, fifo, At, Goto, FlagsTell, Flag, Context, Writing, Reading,
     Cleaning, Clearing
<1>6. CASE CleanLeave(c)
  BY <1>1, <1>6, Roles DEF CleanLeave, At, Goto, FlagsTell, Flag, Context, Writing, Reading,
     Cleaning, Clearing
<1> QED
  BY <1>2, <1>3, <1>4, <1>5, <1>6 DEF Clean

(* A clear resets every flag when no other call is under way.              *)
LEMMA ClearFlags ==
  ASSUME Control, FlagsTell, NEW c \in Context, Clear(c)
  PROVE  FlagsTell'
<1>1. pc \in [Context -> Places] /\ (c = "main" \/ c = "interrupt")
  BY DEF Control, Context
<1>2. CASE ClearEnter(c)
  BY <1>1, <1>2, Roles DEF ClearEnter, At, Goto, FlagsTell, Flag, Context, Writing, Reading,
     Cleaning, Clearing
<1>3. CASE ClearHead(c)
  BY <1>1, <1>3, Roles DEF ClearHead, fifo, At, Goto, FlagsTell, Flag, Context, Writing, Reading,
     Cleaning, Clearing
<1>4. CASE ClearEnd(c)
  BY <1>1, <1>4, Roles DEF ClearEnd, fifo, At, Goto, FlagsTell, Flag, Context, Writing, Reading,
     Cleaning, Clearing
<1>5. CASE ClearSize(c)
  BY <1>1, <1>5, Roles DEF ClearSize, fifo, At, Goto, FlagsTell, Flag, Context, Writing, Reading,
     Cleaning, Clearing
<1>6. CASE ClearLeave(c)
  BY <1>1, <1>6, Roles DEF ClearLeave, At, Goto, FlagsTell, Flag, Context, Writing, Reading,
     Cleaning, Clearing
<1> QED
  BY <1>2, <1>3, <1>4, <1>5, <1>6 DEF Clear

-----------------------------------------------------------------------------
(* Places half-way through a call: the elements are stored, head is moved, *)
(* end is moved, the indices are reset.                                    *)
Moved   == {"loadRoom", "shrink"}
Stored  == {"head"} \cup Moved
Dropped == {"loadUsed", "grow"}
Reset   == {"resetEnd", "resetSize"}
Used    == Max - size

Ranges ==
  /\ buffer \in [Cell -> Nat] /\ head \in Cell /\ end \in Cell
  /\ accepted \in Nat /\ freed \in Nat
  /\ length \in [Context -> 0 .. Max]
  /\ DOMAIN reg = Context /\ DOMAIN data = Context
  /\ size \in 0 .. Max /\ Used = accepted - freed

(* A length that was granted stays granted, and a size that was loaded is  *)
(* still the size.                                                         *)
Granted(c) ==
  /\ pc[c] \in Stored \cup {"store"} => length[c] <= size
  /\ pc[c] \in Reading \cup Dropped \cup {"clean", "end"} => length[c] <= Used
  /\ pc[c] \in {"shrink", "grow"} => reg[c] = size
  /\ pc[c] = "fill" => Used = 0

HeadAgrees ==
  /\ (\A c \in Context : pc[c] \notin Moved \cup Dropped \cup Reset) => head = Wrap(end + Used)
  /\ \A c \in Context :
       /\ pc[c] \in Moved => head = Wrap(end + Used + length[c])
       /\ pc[c] \in Dropped => head = Wrap(end + Used - length[c])
       /\ pc[c] \in Reset => head = 0
       /\ pc[c] = "resetSize" => end = 0

(* From `from` behind end on, the buffer holds the n elements after x.     *)
Holds(from, n, x) == \A k \in 1 .. n : buffer[Wrap(end + from + k - 1)] = x + k

BufferAgrees ==
  /\ (\A c \in Context : pc[c] \notin Dropped \cup {"resetSize"}) => Holds(0, Used, freed)
  /\ \A c \in Context :
       /\ pc[c] \in Dropped => Holds(0, Used - length[c], freed + length[c])
       /\ pc[c] \in Stored => Holds(Used, length[c], accepted)

Numbers ==
  /\ Ranges
  /\ \A c \in Context : Granted(c)
  /\ HeadAgrees /\ BufferAgrees /\ ReadsOldest

IInv == Control /\ FlagsTell /\ Numbers

(* The arithmetic of the ring.                                             *)
LEMMA WrapIs ==
  ASSUME NEW i \in 0 .. 2 * Max - 1
  PROVE  /\ Wrap(i) = IF i < Max THEN i ELSE i - Max
         /\ Wrap(i) \in Cell
  BY NestedAssumption DEF Wrap, Cell

(* A sum that is wrapped on the way is wrapped once.                       *)
LEMMA WrapTwice ==
  ASSUME NEW e \in Cell, NEW a \in 0 .. Max, NEW b \in 0 .. Max, a + b <= Max
  PROVE  Wrap(Wrap(e + a) + b) = Wrap(e + a + b)
<1>1. e + a \in 0 .. 2 * Max - 1 /\ e + a + b \in 0 .. 2 * Max - 1 /\ Max \in Nat \ {0}
  BY NestedAssumption DEF Cell
<1>2. /\ Wrap(e + a) = IF e + a < Max THEN e + a ELSE e + a - Max
      /\ Wrap(e + a) \in 0 .. Max - 1
  BY <1>1, WrapIs DEF Cell
<1>3. Wrap(e + a) + b \in 0 .. 2 * Max - 1
  BY <1>1, <1>2 DEF Cell
<1>4. /\ Wrap(e + a + b) = IF e + a + b < Max THEN e + a + b ELSE e + a + b - Max
      /\ Wrap(Wrap(e + a) + b) = IF Wrap(e + a) + b < Max THEN Wrap(e + a) + b
                                                          ELSE Wrap(e + a) + b - Max
  BY <1>1, <1>3, WrapIs
<1> QED
  BY <1>1, <1>2, <1>4 DEF Cell

(* How far a cell lies behind head, for the j-th cell behind end.          *)
LEMMA BehindHead ==
  ASSUME NEW e \in Cell, NEW u \in 0 .. Max, NEW j \in 0 .. Max - 1
  PROVE  Wrap(Wrap(e + j) - Wrap(e + u) + Max) = IF j >= u THEN j - u ELSE Max + j - u
<1>1. e + u \in 0 .. 2 * Max - 1 /\ e + j \in 0 .. 2 * Max - 1 /\ Max \in Nat \ {0}
  BY NestedAssumption DEF Cell
<1>2. /\ Wrap(e + u) = IF e + u < Max THEN e + u ELSE e + u - Max
      /\ Wrap(e + j) = IF e + j < Max THEN e + j ELSE e + j - Max
      /\ Wrap(e + u) \in 0 .. Max - 1 /\ Wrap(e + j) \in 0 .. Max - 1
  BY <1>1, WrapIs DEF Cell
<1> DEFINE x == Wrap(e + j) - Wrap(e + u) + Max
<1>3. x \in 0 .. 2 * Max - 1
  BY <1>1, <1>2
<1>4. Wrap(x) = IF x < Max THEN x ELSE x - Max
  BY <1>3, WrapIs
<1>5. CASE j >= u
  BY <1>1, <1>2, <1>4, <1>5 DEF Cell
<1>6. CASE j < u
  BY <1>1, <1>2, <1>4, <1>6 DEF Cell
<1> QED
  BY <1>1, <1>5, <1>6

(* Beside a call that is changing the fields no other is.                  *)
LEMMA Alone ==
  ASSUME Control, FlagsTell, NEW c \in Context, c = "main" => pc["interrupt"] = "idle",
         pc[c] \in Writing \cup Cleaning \cup Clearing
  PROVE  /\ \A d \in Context \ {c} : pc[d] \notin Writing \cup Cleaning \cup Clearing
         /\ pc[c] \in Cleaning \cup Clearing => \A d \in Context \ {c} : pc[d] = "idle"
  BY Roles DEF FlagsTell, Context, Writing, Cleaning, Clearing

(* A move that touches no field and stays on the same side of every        *)
(* change of them.                                                         *)
LEMMA Quiet ==
  ASSUME Control, Numbers, NEW c \in Context, NEW p \in Places, pc' = [pc EXCEPT ![c] = p],
         UNCHANGED <<buffer, head, end, size, accepted, freed, data>>,
         length' \in [Context -> 0 .. Max], DOMAIN reg' = Context,
         \A d \in Context \ {c} : length'[d] = length[d] /\ reg'[d] = reg[d],
         pc[c] \in Stored \cup Dropped => length'[c] = length[c],
         p \in Moved <=> pc[c] \in Moved, p \in Stored <=> pc[c] \in Stored,
         p \in Dropped <=> pc[c] \in Dropped, p \in Reset <=> pc[c] \in Reset,
         p = "resetSize" <=> pc[c] = "resetSize", p \notin {"copied", "fill"},
         p \in Stored \cup {"store"} => length'[c] <= size,
         p \in Reading \cup Dropped \cup {"clean", "end"} => length'[c] <= Used,
         p \in {"shrink", "grow"} => reg'[c] = size
  PROVE  Numbers'
<1>1. pc'[c] = p /\ \A d \in Context \ {c} : pc'[d] = pc[d]
  BY DEF Control
<1>2. Ranges'
  BY DEF Numbers, Ranges, Used
<1>3. \A d \in Context : Granted(d)'
  <2> SUFFICES ASSUME NEW d \in Context PROVE Granted(d)'
    OBVIOUS
  <2>1. CASE d = c
    BY <1>1, <2>1 DEF Granted, Used
  <2>2. CASE d # c
    <3>1. pc'[d] = pc[d] /\ length'[d] = length[d] /\ reg'[d] = reg[d]
      BY <1>1, <2>2
    <3> QED
      BY <3>1 DEF Numbers, Granted, Used
  <2> QED
    BY <2>1, <2>2
<1>4. \A d \in Context :
        /\ pc'[d] \in Moved <=> pc[d] \in Moved
        /\ pc'[d] \in Stored <=> pc[d] \in Stored
        /\ pc'[d] \in Dropped <=> pc[d] \in Dropped
        /\ pc'[d] \in Reset <=> pc[d] \in Reset
        /\ pc'[d] = "resetSize" <=> pc[d] = "resetSize"
        /\ pc[d] \in Stored \cup Dropped => length'[d] = length[d]
  <2> SUFFICES ASSUME NEW d \in Context
               PROVE  /\ pc'[d] \in Moved <=> pc[d] \in Moved
                      /\ pc'[d] \in Stored <=> pc[d] \in Stored
                      /\ pc'[d] \in Dropped <=> pc[d] \in Dropped
                      /\ pc'[d] \in Reset <=> pc[d] \in Reset
                      /\ pc'[d] = "resetSize" <=> pc[d] = "resetSize"
                      /\ pc[d] \in Stored \cup Dropped => length'[d] = length[d]
    OBVIOUS
  <2>1. CASE d = c
    BY <1>1, <2>1
  <2>2. CASE d # c
    <3>1. pc'[d] = pc[d] /\ length'[d] = length[d]
      BY <1>1, <2>2
    <3> QED
      BY <3>1
  <2> QED
    BY <2>1, <2>2
<1>5. HeadAgrees'
  BY <1>4 DEF Numbers, HeadAgrees, Used, Stored
<1>6. BufferAgrees'
  <2>1. (\A d \in Context : pc'[d] \notin Dropped \cup {"resetSize"}) => Holds(0, Used, freed)'
    BY <1>4 DEF Numbers, BufferAgrees, Used, Holds
  <2> SUFFICES ASSUME NEW d \in Context
               PROVE  /\ pc'[d] \in Dropped => Holds(0, Used - length[d], freed + length[d])'
                      /\ pc'[d] \in Stored => Holds(Used, length[d], accepted)'
    BY <2>1 DEF BufferAgrees
  <2>2. ASSUME pc'[d] \in Dropped
        PROVE  Holds(0, Used - length[d], freed + length[d])'
    <3>1. length'[d] = length[d] /\ Holds(0, Used - length[d], freed + length[d])
      BY <1>4, <2>2 DEF Numbers, BufferAgrees
    <3> QED
      BY <3>1 DEF Holds, Used
  <2>3. ASSUME pc'[d] \in Stored
        PROVE  Holds(Used, length[d], accepted)'
    <3>1. length'[d] = length[d] /\ Holds(Used, length[d], accepted)
      BY <1>4, <2>3 DEF Numbers, BufferAgrees
    <3> QED
      BY <3>1 DEF Holds, Used
  <2> QED
    BY <2>2, <2>3
<1>7. ReadsOldest'
  <2> SUFFICES ASSUME NEW d \in Context, pc'[d] = "copied"
               PROVE  data'[d] = [i \in 1 .. length'[d] |-> freed' + i]
    BY DEF ReadsOldest
  <2>1. d # c /\ pc[d] = "copied" /\ length'[d] = length[d]
    BY <1>1
  <2> QED
    BY <2>1 DEF Numbers, ReadsOldest
<1> QED
  BY <1>2, <1>3, <1>5, <1>6, <1>7 DEF Numbers

(* A call begins with its length, which nothing has granted yet.           *)
LEMMA BeginNumbers ==
  ASSUME Control, Numbers, NEW c \in Context, Begin(c)
  PROVE  Numbers'
<1>1. PICK n \in 1 .. Max, p \in {"write", "clear", "read"} :
        length' = [length EXCEPT ![c] = n] /\ pc' = [pc EXCEPT ![c] = p]
  BY DEF Begin, Goto
<1>2. /\ UNCHANGED <<buffer, head, end, size, accepted, freed, reg, data>> /\ pc[c] = "idle"
  BY DEF Begin, At, fifo, count
<1>3. /\ length' \in [Context -> 0 .. Max] /\ DOMAIN reg' = Context
      /\ \A d \in Context \ {c} : length'[d] = length[d] /\ reg'[d] = reg[d]
  BY <1>1, <1>2, NestedAssumption DEF Numbers, Ranges
<1>4. /\ p \in Places
      /\ p \notin Stored \cup Dropped \cup Reset \cup Reading \cup {"store", "clean", "end"}
  BY DEF Places, Stored, Moved, Dropped, Reset, Reading
<1>5. pc[c] \notin Stored \cup Dropped \cup Reset
  BY <1>2 DEF Stored, Moved, Dropped, Reset
<1> QED
  BY <1>1, <1>2, <1>3, <1>4, <1>5, Quiet DEF Stored, Moved, Dropped, Reset

(* The moves of a write, a read, a clean and a clear that touch no field.  *)
Tests(c) ==
  \/ WriteEnter(c) \/ WriteRoom(c) \/ WriteLeave(c) \/ ReadEnter(c) \/ ReadLeave(c)
  \/ CleanEnter(c) \/ CleanLeave(c) \/ ClearEnter(c)

(* Tests of flags and of the room change no account.                       *)
LEMMA TestsNumbers ==
  ASSUME Control, Numbers, NEW c \in Context, Tests(c)
  PROVE  Numbers'
<1>1. UNCHANGED <<buffer, head, end, size, accepted, freed, data, length, reg>>
  BY DEF Tests, WriteEnter, WriteRoom, WriteLeave, ReadEnter, ReadLeave, CleanEnter, CleanLeave,
     ClearEnter, Local, fifo, count
<1>2. PICK p \in {"room", "idle", "store", "written", "grant", "clean", "end", "reset"} :
        /\ pc' = [pc EXCEPT ![c] = p]
        /\ p = "store" => length[c] <= size
        /\ p = "clean" => pc[c] = "copied"
        /\ p = "end" => pc[c] = "clean"
  BY DEF Tests, WriteEnter, WriteRoom, WriteLeave, ReadEnter, ReadLeave, CleanEnter, CleanLeave,
     ClearEnter, HasRoom, At, Goto
<1>3. pc[c] \in {"write", "room", "written", "read", "copied", "clean", "cleaned", "clear"}
  BY DEF Tests, WriteEnter, WriteRoom, WriteLeave, ReadEnter, ReadLeave, CleanEnter, CleanLeave,
     ClearEnter, At
<1>4. /\ length' \in [Context -> 0 .. Max] /\ DOMAIN reg' = Context
      /\ \A d \in Context \ {c} : length'[d] = length[d] /\ reg'[d] = reg[d]
  BY <1>1 DEF Numbers, Ranges
<1>5. p \in Places /\ p \notin Stored \cup Dropped \cup Reset \cup Reading
  BY <1>2 DEF Places, Writing, Cleaning, Clearing, Stored, Moved, Dropped, Reset, Reading
<1>6. pc[c] \notin Stored \cup Dropped \cup Reset
  BY <1>3 DEF Stored, Moved, Dropped, Reset
<1>7. p \in {"clean", "end"} => length'[c] <= Used
  BY <1>1, <1>2 DEF Numbers, Granted, Reading
<1> QED
  BY <1>1, <1>2, <1>4, <1>5, <1>6, <1>7, Quiet DEF Stored, Moved, Dropped, Reset, Reading

(* A read is granted no more than there is.                                *)
LEMMA GrantNumbers ==
  ASSUME Control, Numbers, NEW c \in Context, ReadGrant(c)
  PROVE  Numbers'
<1>1. /\ UNCHANGED <<buffer, head, end, size, accepted, freed, data, reg>> /\ pc[c] = "grant"
  BY DEF ReadGrant, At, count
<1>2. PICK p \in {"idle", "copy"} :
        /\ pc' = [pc EXCEPT ![c] = p]
        /\ p = "idle" => UNCHANGED length
        /\ p = "copy" => length' = [length EXCEPT ![c] = IF @ > Used THEN Used ELSE @]
  BY DEF ReadGrant, Goto, Used
<1>3. /\ length' \in [Context -> 0 .. Max] /\ \A d \in Context \ {c} : length'[d] = length[d]
      /\ p = "copy" => length'[c] <= Used
  <2>1. size \in 0 .. Max /\ length \in [Context -> 0 .. Max]
    BY DEF Numbers, Ranges
  <2>2. Used \in 0 .. Max
    BY <2>1, NestedAssumption DEF Used
  <2>3. CASE p = "idle"
    BY <1>2, <2>1, <2>3
  <2>4. CASE p = "copy"
    BY <1>2, <2>1, <2>2, <2>4, NestedAssumption
  <2> QED
    BY <2>3, <2>4
<1>4. /\ p \in Places
      /\ p \notin Stored \cup Dropped \cup Reset \cup {"store", "clean", "end", "copied"}
  BY DEF Places, Stored, Moved, Dropped, Reset, Reading
<1>5. pc[c] \notin Stored \cup Dropped \cup Reset
  BY <1>1 DEF Stored, Moved, Dropped, Reset
<1>6. p \in Reading => length'[c] <= Used
  BY <1>3 DEF Reading
<1>7. DOMAIN reg' = Context /\ \A d \in Context \ {c} : reg'[d] = reg[d]
  BY <1>1 DEF Numbers, Ranges
<1> QED
  BY <1>1, <1>2, <1>3, <1>4, <1>5, <1>6, <1>7, Quiet DEF Stored, Moved, Dropped, Reset

(* The size is loaded.                                                     *)
LEMMA LoadNumbers ==
  ASSUME Control, Numbers, NEW c \in Context,
         \/ LoadSize(c, "loadRoom", "shrink")
         \/ LoadSize(c, "loadUsed", "grow")
  PROVE  Numbers'
<1>1. /\ UNCHANGED <<buffer, head, end, size, accepted, freed, data, length>>
      /\ reg' = [reg EXCEPT ![c] = size]
      /\ \/ pc[c] = "loadRoom" /\ pc' = [pc EXCEPT ![c] = "shrink"]
         \/ pc[c] = "loadUsed" /\ pc' = [pc EXCEPT ![c] = "grow"]
  BY DEF LoadSize, At, Goto, fifo, count
<1>2. PICK p \in {"shrink", "grow"} :
        /\ pc' = [pc EXCEPT ![c] = p]
        /\ pc[c] = IF p = "shrink" THEN "loadRoom" ELSE "loadUsed"
  BY <1>1
<1>3. /\ length' \in [Context -> 0 .. Max] /\ DOMAIN reg' = Context /\ reg'[c] = size
      /\ \A d \in Context \ {c} : length'[d] = length[d] /\ reg'[d] = reg[d]
  BY <1>1 DEF Numbers, Ranges
<1>4. /\ p \in Moved <=> pc[c] \in Moved
      /\ p \in Stored <=> pc[c] \in Stored
      /\ p \in Dropped <=> pc[c] \in Dropped
      /\ p \notin Reset /\ pc[c] \notin Reset
      /\ p \in Places /\ p \notin Reading \cup {"store", "clean", "end"}
  BY <1>2 DEF Places, Writing, Cleaning, Clearing, Stored, Moved, Dropped, Reset, Reading
<1>5. /\ p \in Stored => length'[c] <= size
      /\ p \in Dropped => length'[c] <= Used
  BY <1>1, <1>4 DEF Numbers, Granted
<1> QED
  BY <1>1, <1>2, <1>3, <1>4, <1>5, Quiet DEF Reset, Reading

(* What holds of the other context while one changes the fields.           *)
Aside(d) ==
  /\ pc[d] \notin Stored \cup Dropped \cup Reset \cup {"store", "end", "fill"}
  /\ pc'[d] = pc[d] /\ length'[d] = length[d] /\ reg'[d] = reg[d]

(* It stands still, in no such change of its own.                          *)
LEMMA OthersAside ==
  ASSUME Control, FlagsTell, Numbers, NEW c \in Context, c = "main" => pc["interrupt"] = "idle",
         pc[c] \in Writing \cup Cleaning \cup Clearing, NEW p \in Places,
         pc' = [pc EXCEPT ![c] = p], UNCHANGED <<length, reg>>
  PROVE  /\ pc'[c] = p /\ \A d \in Context \ {c} : Aside(d)
         /\ pc[c] \in Cleaning \cup Clearing => \A d \in Context \ {c} : pc[d] = "idle"
<1>1. pc'[c] = p /\ \A d \in Context \ {c} : pc'[d] = pc[d]
  BY DEF Control
<1>2. Stored \cup Dropped \cup Reset \cup {"store", "end", "fill"}
        \subseteq Writing \cup Cleaning \cup Clearing
  BY DEF Stored, Moved, Dropped, Reset, Writing, Cleaning, Clearing
<1>3. \A d \in Context \ {c} :
        pc[d] \notin Stored \cup Dropped \cup Reset \cup {"store", "end", "fill"}
  BY <1>2, Alone
<1> QED
  BY <1>1, <1>3, Alone DEF Aside

(* What the calls that change fields have to show: the granted lengths     *)
(* of the other context, and its copy, are as good as before if nothing    *)
(* was freed.                                                              *)
LEMMA OthersKeep ==
  ASSUME Numbers, NEW c \in Context, \A d \in Context \ {c} : Aside(d),
         Used' >= Used, Used \in Int, Used' \in Int, UNCHANGED <<freed, data>>,
         pc'[c] # "copied", Granted(c)'
  PROVE  (\A d \in Context : Granted(d)') /\ ReadsOldest'
<1>1. ASSUME NEW d \in Context, d # c PROVE Granted(d)'
  <2>1. /\ pc'[d] = pc[d] /\ length'[d] = length[d] /\ length[d] \in Int
        /\ pc[d] \notin Stored \cup {"store"} \cup Dropped \cup {"end", "fill"}
    BY <1>1 DEF Aside, Numbers, Ranges
  <2>2. pc[d] \in Reading \cup {"clean"} => length[d] <= Used
    BY DEF Numbers, Granted
  <2>3. pc[d] \notin {"shrink", "grow"}
    BY <2>1 DEF Stored, Moved, Dropped
  <2> QED
    BY <2>1, <2>2, <2>3 DEF Granted
<1>2. ReadsOldest'
  <2> SUFFICES ASSUME NEW d \in Context, pc'[d] = "copied"
               PROVE  data'[d] = [i \in 1 .. length'[d] |-> freed' + i]
    BY DEF ReadsOldest
  <2>1. pc[d] = "copied" /\ length'[d] = length[d]
    BY DEF Aside
  <2> QED
    BY <2>1 DEF Numbers, ReadsOldest
<1> QED
  BY <1>1, <1>2

(* A write stores behind the used cells and spoils none of them.           *)
LEMMA WriteCopyNumbers ==
  ASSUME Control, FlagsTell, Numbers, NEW c \in Context, WriteCopy(c)
  PROVE  Numbers'
<1>1. /\ pc[c] = "store" /\ pc' = [pc EXCEPT ![c] = "head"]
      /\ c = "main" => pc["interrupt"] = "idle"
      /\ UNCHANGED <<head, end, size, accepted, freed, data, length, reg>>
      /\ buffer' = [k \in Cell |-> LET i == Wrap(k - head + Max)
                                   IN IF i < length[c] THEN accepted + i + 1 ELSE buffer[k]]
  BY DEF WriteCopy, At, Goto, count, Local
<1>2. "head" \in Places /\ pc[c] \in Writing
  BY <1>1 DEF Places, Writing
<1>3. pc'[c] = "head" /\ \A d \in Context \ {c} : Aside(d)
  BY <1>1, <1>2, OthersAside
<1>4. /\ Ranges /\ length[c] \in 0 .. Max /\ length[c] <= size /\ size \in 0 .. Max
      /\ accepted \in Nat /\ freed \in Nat /\ Max \in Nat \ {0} /\ head \in Cell /\ end \in Cell
      /\ Used = accepted - freed
  BY <1>1, NestedAssumption DEF Numbers, Granted, Ranges
<1>5. Used = Max - size /\ Used \in 0 .. Max
  BY <1>4 DEF Used
<1>6. \A d \in Context : pc[d] \notin Moved \cup Dropped \cup Reset
  BY <1>1, <1>3 DEF Aside, Stored, Moved, Dropped, Reset
<1>7. head = Wrap(end + Used) /\ Holds(0, Used, freed)
  BY <1>6 DEF Numbers, HeadAgrees, BufferAgrees, Reset
<1>8. \A i \in 0 .. 2 * Max - 1 : Wrap(i) \in Cell /\ Wrap(i) \in Nat
  BY WrapIs DEF Cell
<1>9. Ranges'
  <2>1. \A k \in Cell : k - head + Max \in 0 .. 2 * Max - 1
    BY <1>4 DEF Cell
  <2>2. buffer' \in [Cell -> Nat]
    BY <1>1, <1>4, <1>8, <2>1 DEF Ranges
  <2> QED
    BY <1>1, <2>2 DEF Numbers, Ranges, Used
<1>10. ASSUME NEW j \in 0 .. Max - 1
       PROVE  /\ j < Used => buffer'[Wrap(end + j)] = buffer[Wrap(end + j)]
              /\ j >= Used /\ j < Used + length[c] =>
                   buffer'[Wrap(end + j)] = accepted + (j - Used) + 1
  <2>1. Wrap(end + j) \in Cell
    BY <1>4, <1>8 DEF Cell
  <2>2. Wrap(Wrap(end + j) - head + Max) = IF j >= Used THEN j - Used ELSE Max + j - Used
    BY <1>4, <1>5, <1>7, BehindHead
  <2>3. buffer'[Wrap(end + j)] =
          IF Wrap(Wrap(end + j) - head + Max) < length[c]
            THEN accepted + Wrap(Wrap(end + j) - head + Max) + 1 ELSE buffer[Wrap(end + j)]
    BY <1>1, <2>1
  <2> QED
    BY <1>4, <1>5, <2>2, <2>3
<1>11. Holds(0, Used, freed)'
  <2> SUFFICES ASSUME NEW k \in 1 .. Used
               PROVE  buffer'[Wrap(end + 0 + k - 1)] = freed + k
    BY <1>1 DEF Holds, Used
  <2>1. k - 1 \in 0 .. Max - 1 /\ k - 1 < Used /\ end + 0 + k - 1 = end + (k - 1)
    BY <1>4, <1>5 DEF Cell
  <2>2. buffer[Wrap(end + 0 + k - 1)] = freed + k
    BY <1>7 DEF Holds
  <2> QED
    BY <1>10, <2>1, <2>2
<1>12. Holds(Used, length[c], accepted)'
  <2> SUFFICES ASSUME NEW k \in 1 .. length[c]
               PROVE  buffer'[Wrap(end + Used + k - 1)] = accepted + k
    BY <1>1 DEF Holds, Used
  <2> DEFINE j == Used + k - 1
  <2>1. j \in 0 .. Max - 1 /\ j >= Used /\ j < Used + length[c] /\ end + Used + k - 1 = end + j
        /\ accepted + (j - Used) + 1 = accepted + k
    BY <1>4, <1>5 DEF Cell
  <2> HIDE DEF j
  <2> QED
    BY <1>10, <2>1
<1>13. HeadAgrees'
  BY <1>1, <1>3, <1>7 DEF HeadAgrees, Aside, Used, Stored, Moved, Dropped, Reset
<1>14. BufferAgrees'
  BY <1>3, <1>11, <1>12 DEF BufferAgrees, Aside, Stored, Moved, Dropped, Reset
<1>15. Granted(c)'
  BY <1>1, <1>3, <1>4 DEF Granted, Stored, Moved, Reading, Dropped
<1>16. Used' = Used
  BY <1>1 DEF Used
<1> QED
  BY <1>1, <1>3, <1>5, <1>9, <1>13, <1>14, <1>15, <1>16, OthersKeep DEF Numbers

(* Then head lies behind what was stored.                                  *)
LEMMA WriteHeadNumbers ==
  ASSUME Control, FlagsTell, Numbers, NEW c \in Context, WriteHead(c)
  PROVE  Numbers'
<1>1. /\ pc[c] = "head" /\ pc' = [pc EXCEPT ![c] = "loadRoom"]
      /\ c = "main" => pc["interrupt"] = "idle"
      /\ UNCHANGED <<buffer, end, size, accepted, freed, data, length, reg>>
      /\ head' = Wrap(head + length[c])
  BY DEF WriteHead, At, Goto, count, Local
<1>2. "loadRoom" \in Places /\ pc[c] \in Writing
  BY <1>1 DEF Places, Writing
<1>3. pc'[c] = "loadRoom" /\ \A d \in Context \ {c} : Aside(d)
  BY <1>1, <1>2, OthersAside
<1>4. /\ Ranges /\ length[c] \in 0 .. Max /\ length[c] <= size /\ size \in 0 .. Max
      /\ head \in Cell /\ end \in Cell /\ Max \in Nat \ {0}
  BY <1>1, NestedAssumption DEF Numbers, Granted, Ranges, Stored
<1>5. Used = Max - size /\ Used \in 0 .. Max /\ Used + length[c] <= Max /\ Used' = Used
  BY <1>1, <1>4 DEF Used
<1>6. \A d \in Context : pc[d] \notin Moved \cup Dropped \cup Reset
  BY <1>1, <1>3 DEF Aside, Stored, Moved, Dropped, Reset
<1>7. /\ head = Wrap(end + Used) /\ Holds(0, Used, freed)
      /\ Holds(Used, length[c], accepted)
  BY <1>1, <1>6 DEF Numbers, HeadAgrees, BufferAgrees, Reset, Stored
<1>8. head' = Wrap(end + Used + length[c])
  BY <1>1, <1>4, <1>5, <1>7, WrapTwice
<1>9. Ranges'
  <2>1. head + length[c] \in 0 .. 2 * Max - 1
    BY <1>4 DEF Cell
  <2> QED
    BY <1>1, <2>1, WrapIs DEF Numbers, Ranges, Used
<1>10. HeadAgrees'
  BY <1>1, <1>3, <1>5, <1>8 DEF HeadAgrees, Aside, Stored, Moved, Dropped, Reset
<1>11. Holds(0, Used, freed)' /\ Holds(Used, length[c], accepted)'
  BY <1>1, <1>5, <1>7 DEF Holds
<1>12. BufferAgrees'
  BY <1>3, <1>11 DEF BufferAgrees, Aside, Stored, Moved, Dropped, Reset
<1>13. Granted(c)'
  BY <1>1, <1>3, <1>4 DEF Granted, Stored, Moved, Reading, Dropped
<1> QED
  BY <1>1, <1>3, <1>5, <1>9, <1>10, <1>12, <1>13, OthersKeep DEF Numbers

(* With its size the write is accounted for: what was stored behind the    *)
(* used cells is now among them.                                           *)
LEMMA WriteSizeNumbers ==
  ASSUME Control, FlagsTell, Numbers, NEW c \in Context, WriteSize(c)
  PROVE  Numbers'
<1>1. /\ pc[c] = "shrink" /\ pc' = [pc EXCEPT ![c] = "written"]
      /\ c = "main" => pc["interrupt"] = "idle"
      /\ UNCHANGED <<buffer, head, end, freed, data, length, reg>>
      /\ size' = reg[c] - length[c] /\ accepted' = accepted + length[c]
  BY DEF WriteSize, At, Goto, Local
<1>2. "written" \in Places /\ pc[c] \in Writing
  BY <1>1 DEF Places, Writing
<1>3. pc'[c] = "written" /\ \A d \in Context \ {c} : Aside(d)
  BY <1>1, <1>2, OthersAside
<1>4. /\ Ranges /\ length[c] \in 0 .. Max /\ length[c] <= size /\ size \in 0 .. Max
      /\ reg[c] = size /\ Used = accepted - freed /\ accepted \in Nat /\ freed \in Nat
      /\ head \in Cell /\ end \in Cell /\ Max \in Nat \ {0}
  BY <1>1, NestedAssumption DEF Numbers, Granted, Ranges, Stored, Moved
<1>5. /\ Used = Max - size /\ Used \in 0 .. Max /\ size' \in 0 .. Max
      /\ Used' = Used + length[c] /\ accepted' \in Nat /\ Used' = accepted' - freed
  BY <1>1, <1>4 DEF Used
<1>6. /\ head = Wrap(end + Used + length[c])
  BY <1>1 DEF Numbers, HeadAgrees, Moved
<1>7. Holds(0, Used, freed) /\ Holds(Used, length[c], accepted)
  <2>1. \A d \in Context : pc[d] \notin Dropped \cup Reset
    BY <1>1, <1>3 DEF Aside, Dropped, Reset
  <2> QED
    BY <1>1, <2>1 DEF Numbers, BufferAgrees, Reset, Stored, Moved
<1>8. Ranges'
  BY <1>1, <1>5 DEF Numbers, Ranges
<1>9. HeadAgrees'
  <2>1. /\ end \in Int /\ Used \in Int /\ length[c] \in Int
        /\ end' = end /\ Used' = Used + length[c]
    BY <1>1, <1>4, <1>5 DEF Cell
  <2>2. end + Used + length[c] = end' + Used'
    BY <2>1
  <2> QED
    BY <1>1, <1>3, <1>6, <2>2 DEF HeadAgrees, Aside, Stored, Moved, Dropped, Reset
<1>10. Holds(0, Used, freed)'
  <2> SUFFICES ASSUME NEW k \in 1 .. Used'
               PROVE  buffer[Wrap(end + 0 + k - 1)] = freed + k
    BY <1>1 DEF Holds
  <2>1. CASE k <= Used
    BY <1>5, <1>7, <2>1 DEF Holds
  <2>2. CASE k > Used
    <3> DEFINE j == k - Used
    <3>1. /\ j \in 1 .. length[c] /\ end + 0 + k - 1 = end + Used + j - 1
          /\ freed + k = accepted + j
      BY <1>4, <1>5, <2>2 DEF Cell
    <3> HIDE DEF j
    <3> QED
      BY <1>7, <3>1 DEF Holds
  <2> QED
    BY <1>5, <2>1, <2>2
<1>11. BufferAgrees'
  BY <1>3, <1>10 DEF BufferAgrees, Aside, Stored, Moved, Dropped, Reset
<1>12. Granted(c)'
  BY <1>3 DEF Granted, Stored, Moved, Reading, Dropped
<1>13. Used' >= Used /\ Used \in Int /\ Used' \in Int
  BY <1>4, <1>5
<1> QED
  BY <1>1, <1>3, <1>8, <1>9, <1>11, <1>12, <1>13, OthersKeep DEF Numbers

(* A read copies out the oldest elements, also while the other context is  *)
(* half-way through a write.                                               *)
LEMMA ReadCopyNumbers ==
  ASSUME Control, FlagsTell, Numbers, NEW c \in Context, ReadCopy(c)
  PROVE  Numbers'
<1>1. /\ pc[c] = "copy" /\ pc' = [pc EXCEPT ![c] = "copied"]
      /\ c = "main" => pc["interrupt"] = "idle"
      /\ UNCHANGED <<buffer, head, end, size, accepted, freed, length, reg>>
      /\ data' = [data EXCEPT ![c] = [i \in 1 .. length[c] |-> buffer[Wrap(end + i - 1)]]]
  BY DEF ReadCopy, At, Goto, fifo, count
<1>2. pc'[c] = "copied" /\ \A d \in Context \ {c} : pc'[d] = pc[d]
  BY <1>1 DEF Control
<1>3. /\ length[c] \in 0 .. Max /\ length[c] <= Used /\ end \in Cell /\ DOMAIN data = Context
      /\ size \in 0 .. Max /\ Max \in Nat
  BY <1>1, NestedAssumption DEF Numbers, Granted, Ranges, Reading
<1>4. Holds(0, Used, freed)
  <2>1. \A d \in Context : pc[d] \notin Dropped \cup {"resetSize"}
    <3>1. pc["interrupt"] \notin Cleaning \cup Clearing
      BY Roles
    <3>2. pc["main"] \notin Cleaning \cup Clearing
      BY <1>1 DEF FlagsTell, Context, Reading, Cleaning, Clearing
    <3> QED
      BY <3>1, <3>2 DEF Context, Dropped, Cleaning, Clearing
  <2> QED
    BY <2>1 DEF Numbers, BufferAgrees
<1>5. ReadsOldest'
  <2> SUFFICES ASSUME NEW d \in Context, pc'[d] = "copied"
               PROVE  data'[d] = [i \in 1 .. length[d] |-> freed + i]
    BY <1>1 DEF ReadsOldest
  <2>1. CASE d = c
    <3>1. data'[c] = [i \in 1 .. length[c] |-> buffer[Wrap(end + i - 1)]]
      BY <1>1, <1>3
    <3>2. \A i \in 1 .. length[c] : buffer[Wrap(end + i - 1)] = freed + i
      <4> TAKE i \in 1 .. length[c]
      <4>1. i \in 1 .. Used /\ end + 0 + i - 1 = end + i - 1
        BY <1>3 DEF Cell, Used
      <4> QED
        BY <1>4, <4>1 DEF Holds
    <3> QED
      BY <2>1, <3>1, <3>2
  <2>2. CASE d # c
    BY <1>1, <1>2, <1>3, <2>2 DEF Numbers, ReadsOldest
  <2> QED
    BY <2>1, <2>2
<1>6. \A d \in Context :
        /\ pc'[d] \in Moved <=> pc[d] \in Moved
        /\ pc'[d] = "fill" <=> pc[d] = "fill"
        /\ pc'[d] \in Stored \cup {"store"} <=> pc[d] \in Stored \cup {"store"}
        /\ pc'[d] \in Stored <=> pc[d] \in Stored
        /\ pc'[d] \in Dropped <=> pc[d] \in Dropped
        /\ pc'[d] \in Reset <=> pc[d] \in Reset
        /\ pc'[d] = "resetSize" <=> pc[d] = "resetSize"
        /\ pc'[d] \in Reading \cup Dropped \cup {"clean", "end"}
             <=> pc[d] \in Reading \cup Dropped \cup {"clean", "end"}
        /\ pc'[d] \in {"shrink", "grow"} <=> pc[d] \in {"shrink", "grow"}
  BY <1>1, <1>2 DEF Stored, Moved, Dropped, Reset, Reading
<1>7. Ranges' /\ Used' = Used
  BY <1>1 DEF Numbers, Ranges, Used
<1>8. \A d \in Context : Granted(d)'
  BY <1>1, <1>6, <1>7 DEF Numbers, Granted
<1>9. HeadAgrees'
  BY <1>1, <1>6, <1>7 DEF Numbers, HeadAgrees
<1>10. BufferAgrees'
  BY <1>1, <1>6, <1>7 DEF Numbers, BufferAgrees, Holds
<1> QED
  BY <1>5, <1>7, <1>8, <1>9, <1>10 DEF Numbers

(* The clean half drops the oldest elements, with the other context idle.  *)
LEMMA CleanEndNumbers ==
  ASSUME Control, FlagsTell, Numbers, NEW c \in Context, CleanEnd(c)
  PROVE  Numbers'
<1>1. /\ pc[c] = "end" /\ pc' = [pc EXCEPT ![c] = "loadUsed"]
      /\ c = "main" => pc["interrupt"] = "idle"
      /\ UNCHANGED <<buffer, head, size, accepted, freed, data, length, reg>>
      /\ end' = Wrap(end + length[c])
  BY DEF CleanEnd, At, Goto, count, Local
<1>2. "loadUsed" \in Places /\ pc[c] \in Cleaning
  BY <1>1 DEF Places, Cleaning
<1>3. pc'[c] = "loadUsed" /\ \A d \in Context \ {c} : Aside(d) /\ pc[d] = "idle"
  BY <1>1, <1>2, OthersAside
<1>4. /\ Ranges /\ length[c] \in 0 .. Max /\ length[c] <= Used /\ size \in 0 .. Max
      /\ head \in Cell /\ end \in Cell /\ Max \in Nat \ {0}
  BY <1>1, NestedAssumption DEF Numbers, Granted, Ranges
<1>5. Used = Max - size /\ Used \in 0 .. Max /\ Used' = Used
  BY <1>1, <1>4 DEF Used
<1>6. head = Wrap(end + Used) /\ Holds(0, Used, freed)
  <2>1. \A d \in Context : pc[d] \notin Moved \cup Dropped \cup Reset
    BY <1>1, <1>3 DEF Moved, Dropped, Reset
  <2> QED
    BY <2>1 DEF Numbers, HeadAgrees, BufferAgrees, Reset
<1>7. head' = Wrap(end' + Used' - length'[c])
  <2> DEFINE l == length[c]
  <2> DEFINE rest == Used - l
  <2>1. /\ l \in 0 .. Max /\ rest \in 0 .. Max /\ l + rest <= Max /\ rest + l = Used
        /\ end + l + rest = end + Used
    BY <1>4, <1>5 DEF Cell
  <2>2. Wrap(Wrap(end + l) + rest) = Wrap(end + Used)
    <3> HIDE DEF l, rest
    <3> QED
      BY <1>4, <2>1, WrapTwice
  <2>3. Wrap(end + l) \in Int
    BY <1>4, WrapIs DEF Cell
  <2>4. end' + Used' - length'[c] = Wrap(end + l) + rest
    BY <1>1, <1>4, <1>5, <2>3
  <2> QED
    BY <1>1, <1>6, <2>2, <2>4
<1>8. Ranges'
  <2>1. end + length[c] \in 0 .. 2 * Max - 1
    BY <1>4 DEF Cell
  <2> QED
    BY <1>1, <2>1, WrapIs DEF Numbers, Ranges, Used
<1>9. HeadAgrees'
  BY <1>3, <1>7 DEF HeadAgrees, Stored, Moved, Dropped, Reset, Aside
<1>10. Holds(0, Used - length[c], freed + length[c])'
  <2> SUFFICES ASSUME NEW k \in 1 .. Used - length[c]
               PROVE  buffer[Wrap(Wrap(end + length[c]) + 0 + k - 1)] = freed + length[c] + k
    BY <1>1, <1>5 DEF Holds
  <2> DEFINE l == length[c]
  <2> DEFINE b == k - 1
  <2>1. /\ b \in 0 .. Max /\ l \in 0 .. Max /\ l + b <= Max /\ l + k \in 1 .. Used
        /\ end + l + b = end + 0 + (l + k) - 1 /\ freed + l + k = freed + (l + k)
    <3>1. end \in Int /\ freed \in Int
      BY <1>4 DEF Cell, Ranges
    <3>2. l \in 0 .. Max /\ Used \in 0 .. Max /\ Max \in Nat /\ l <= Used /\ k \in 1 .. Used - l
      BY <1>4, <1>5
    <3> HIDE DEF l
    <3> QED
      BY <3>1, <3>2
  <2>2. Wrap(end + l) \in Int /\ Wrap(end + l) + 0 + k - 1 = Wrap(end + l) + b
    BY <1>4, WrapIs DEF Cell
  <2>3. buffer[Wrap(end + 0 + (l + k) - 1)] = freed + (l + k)
    BY <1>6, <2>1 DEF Holds
  <2>4. Wrap(Wrap(end + l) + b) = Wrap(end + l + b)
    <3> HIDE DEF l, b
    <3> QED
      BY <1>4, <2>1, WrapTwice
  <2> QED
    BY <2>1, <2>2, <2>3, <2>4
<1>11. BufferAgrees'
  BY <1>3, <1>10 DEF BufferAgrees, Stored, Moved, Dropped, Reset, Aside
<1>12. Granted(c)'
  BY <1>1, <1>3, <1>4, <1>5 DEF Granted, Stored, Moved, Reading, Dropped
<1> QED
  BY <1>1, <1>3, <1>5, <1>8, <1>9, <1>11, <1>12, OthersKeep DEF Numbers

(* With its size the clean half is accounted for.                          *)
LEMMA CleanSizeNumbers ==
  ASSUME Control, FlagsTell, Numbers, NEW c \in Context, CleanSize(c)
  PROVE  Numbers'
<1>1. /\ pc[c] = "grow" /\ pc' = [pc EXCEPT ![c] = "cleaned"]
      /\ c = "main" => pc["interrupt"] = "idle"
      /\ UNCHANGED <<buffer, head, end, accepted, data, length, reg>>
      /\ size' = reg[c] + length[c] /\ freed' = freed + length[c]
  BY DEF CleanSize, At, Goto, Local
<1>2. "cleaned" \in Places /\ pc[c] \in Cleaning
  BY <1>1 DEF Places, Cleaning
<1>3. pc'[c] = "cleaned" /\ \A d \in Context \ {c} : pc[d] = "idle" /\ pc'[d] = "idle"
  BY <1>1, <1>2, OthersAside DEF Aside
<1>4. /\ Ranges /\ length[c] \in 0 .. Max /\ length[c] <= Used /\ size \in 0 .. Max
      /\ reg[c] = size /\ Used = accepted - freed /\ accepted \in Nat /\ freed \in Nat
      /\ head \in Cell /\ end \in Cell /\ Max \in Nat \ {0}
  BY <1>1, NestedAssumption DEF Numbers, Granted, Ranges, Dropped
<1>5. /\ Used = Max - size /\ Used \in 0 .. Max /\ size' \in 0 .. Max
      /\ Used' = Used - length[c] /\ freed' \in Nat /\ Used' = accepted - freed'
  BY <1>1, <1>4 DEF Used
<1>6. /\ head = Wrap(end + Used - length[c])
      /\ Holds(0, Used - length[c], freed + length[c])
  BY <1>1 DEF Numbers, HeadAgrees, BufferAgrees, Dropped
<1>7. Ranges'
  BY <1>1, <1>5 DEF Numbers, Ranges
<1>8. HeadAgrees'
  <2>1. end \in Int /\ Used \in Int /\ length[c] \in Int /\ end' = end /\ Used' = Used - length[c]
    BY <1>1, <1>4, <1>5 DEF Cell
  <2>2. end + Used - length[c] = end' + Used'
    BY <2>1
  <2> QED
    BY <1>1, <1>3, <1>6, <2>2 DEF HeadAgrees, Moved, Dropped, Reset
<1>9. BufferAgrees'
  <2>1. Holds(0, Used, freed)'
    BY <1>1, <1>5, <1>6 DEF Holds
  <2> QED
    BY <1>3, <2>1 DEF BufferAgrees, Stored, Moved, Dropped
<1>10. (\A d \in Context : Granted(d)') /\ ReadsOldest'
  BY <1>3 DEF Granted, ReadsOldest, Stored, Moved, Reading, Dropped
<1> QED
  BY <1>7, <1>8, <1>9, <1>10 DEF Numbers

(* A clear resets the fields one by one, with the other context idle.      *)
LEMMA ClearNumbers ==
  ASSUME Control, FlagsTell, Numbers, NEW c \in Context,
         ClearHead(c) \/ ClearEnd(c) \/ ClearSize(c) \/ ClearLeave(c)
  PROVE  Numbers'
<1>1. PICK p \in {"resetEnd", "resetSize", "fill", "idle"} : pc' = [pc EXCEPT ![c] = p]
  BY DEF ClearHead, ClearEnd, ClearSize, ClearLeave, Goto
<1>2. /\ UNCHANGED <<data, length, reg, accepted>>
      /\ c = "main" => pc["interrupt"] = "idle"
      /\ pc[c] \in Clearing
  BY DEF ClearHead, ClearEnd, ClearSize, ClearLeave, At, Local, count, Clearing
<1>3. p \in Places
  BY DEF Places, Clearing
<1>4. pc'[c] = p /\ \A d \in Context \ {c} : pc[d] = "idle" /\ pc'[d] = "idle"
  BY <1>1, <1>2, <1>3, OthersAside DEF Aside
<1>5. (\A d \in Context : Granted(d)') /\ ReadsOldest'
  <2>1. p = "fill" => Used' = 0
    <3>1. ASSUME p = "fill" PROVE ClearSize(c)
      BY <1>4, <3>1 DEF ClearHead, ClearEnd, ClearLeave, Goto, Control
    <3> QED
      BY <3>1, NestedAssumption DEF ClearSize, Used
  <2> QED
    BY <1>4, <2>1 DEF Granted, ReadsOldest, Stored, Moved, Reading, Dropped
<1>6. /\ Ranges /\ Max \in Nat \ {0} /\ 0 \in Cell
  BY NestedAssumption DEF Numbers, Cell
<1>7. CASE ClearHead(c)
  <2>1. /\ pc'[c] = "resetEnd" /\ head' = 0 /\ UNCHANGED <<buffer, end, size, freed>>
        /\ pc[c] = "reset"
    BY <1>4, <1>7 DEF ClearHead, Goto, At, count, Control
  <2>2. Holds(0, Used, freed)
    BY <1>4, <2>1 DEF Numbers, BufferAgrees, Dropped
  <2>3. Ranges'
    BY <1>2, <1>6, <2>1 DEF Ranges, Used
  <2>4. HeadAgrees' /\ BufferAgrees'
    BY <1>2, <1>4, <2>1, <2>2 DEF HeadAgrees, BufferAgrees, Holds, Used,
       Stored, Moved, Dropped, Reset
  <2> QED
    BY <1>5, <2>3, <2>4 DEF Numbers
<1>8. CASE ClearEnd(c)
  <2>1. /\ pc'[c] = "resetSize" /\ end' = 0 /\ UNCHANGED <<buffer, head, size, freed>>
        /\ pc[c] = "resetEnd"
    BY <1>4, <1>8 DEF ClearEnd, Goto, At, count, Control
  <2>2. head = 0
    BY <2>1 DEF Numbers, HeadAgrees, Reset
  <2>3. Ranges'
    BY <1>2, <1>6, <2>1 DEF Ranges, Used
  <2>4. HeadAgrees' /\ BufferAgrees'
    BY <1>4, <2>1, <2>2 DEF HeadAgrees, BufferAgrees, Stored, Moved, Dropped, Reset
  <2> QED
    BY <1>5, <2>3, <2>4 DEF Numbers
<1>9. CASE ClearSize(c)
  <2>1. /\ pc'[c] = "fill" /\ size' = Max /\ freed' = accepted /\ UNCHANGED <<buffer, head, end>>
        /\ pc[c] = "resetSize"
    BY <1>4, <1>9 DEF ClearSize, Goto, At, Control
  <2>2. head = 0 /\ end = 0
    BY <2>1 DEF Numbers, HeadAgrees, Reset
  <2>3. Used' = 0 /\ accepted \in Nat
    BY <1>6, <2>1 DEF Used, Ranges
  <2>4. Ranges'
    BY <1>2, <1>6, <2>1, <2>3 DEF Ranges
  <2>5. Wrap(0) = 0 /\ end' + Used' = 0
    BY <1>6, <2>1, <2>2, <2>3, WrapIs
  <2>6. HeadAgrees'
    BY <1>4, <2>1, <2>2, <2>5 DEF HeadAgrees, Moved, Dropped, Reset
  <2>7. BufferAgrees'
    BY <1>4, <2>1, <2>3 DEF BufferAgrees, Holds, Stored, Moved, Dropped
  <2> QED
    BY <1>5, <2>4, <2>6, <2>7 DEF Numbers
<1>10. CASE ClearLeave(c)
  <2>1. /\ pc'[c] = "idle" /\ buffer' = [k \in Cell |-> 0]
        /\ UNCHANGED <<head, end, size, freed>> /\ pc[c] = "fill"
    BY <1>4, <1>10 DEF ClearLeave, Goto, At, count, Control
  <2>2. Used = 0 /\ Used' = Used
    BY <2>1 DEF Numbers, Granted, Used
  <2>3. head = Wrap(end + Used)
    BY <1>4, <2>1 DEF Numbers, HeadAgrees, Moved, Dropped, Reset
  <2>4. Ranges'
    BY <1>2, <1>6, <2>1, <2>2 DEF Ranges
  <2>5. HeadAgrees'
    BY <1>4, <2>1, <2>2, <2>3 DEF HeadAgrees, Moved, Dropped, Reset
  <2>6. BufferAgrees'
    BY <1>4, <2>1, <2>2 DEF BufferAgrees, Holds, Stored, Moved, Dropped
  <2> QED
    BY <1>5, <2>4, <2>5, <2>6 DEF Numbers
<1> QED
  BY <1>7, <1>8, <1>9, <1>10

-----------------------------------------------------------------------------
(* An empty FIFO with no call under way.                                   *)
LEMMA Initially == SoundPrograms /\ Init => IInv
<1> SUFFICES ASSUME SoundPrograms, Init PROVE IInv
  OBVIOUS
<1>1. /\ pc = [c \in Context |-> "idle"] /\ execution = {} /\ program \in Programs
      /\ call = [c \in Context |-> "peek"]
  BY DEF Init
<1>2. Control
  BY <1>1 DEF Control, SoundPrograms, Disciplined, Context, Places, Call, Writing, Reading,
     Cleaning, Clearing
<1>3. FlagsTell
  BY <1>1 DEF FlagsTell, Context, Writing, Reading, Cleaning, Clearing
<1>4. Ranges /\ Used = 0
  BY NestedAssumption DEF Init, Ranges, Used, Cell
<1>5. \A c \in Context : Granted(c)
  BY <1>1 DEF Granted, Stored, Moved, Dropped, Reading
<1>6. HeadAgrees
  <2>1. Wrap(0) = 0 /\ end = 0 /\ head = 0
    BY WrapIs, NestedAssumption DEF Init
  <2> QED
    BY <1>1, <1>4, <2>1 DEF HeadAgrees, Moved, Dropped, Reset
<1>7. BufferAgrees /\ ReadsOldest
  BY <1>1, <1>4 DEF BufferAgrees, ReadsOldest, Holds, Stored, Moved, Dropped
<1> QED
  BY <1>2, <1>3, <1>4, <1>5, <1>6, <1>7 DEF IInv, Numbers

(* Each step of each call keeps the invariant.                             *)
LEMMA NextKeeps == IInv /\ [Next]_vars => IInv'
<1> SUFFICES ASSUME Control, FlagsTell, Numbers, [Next]_vars PROVE IInv'
  BY DEF IInv
<1>1. CASE UNCHANGED vars
  BY <1>1 DEF vars, fifo, count, IInv, Control, Disciplined, FlagsTell, Numbers, Ranges, Granted,
     HeadAgrees, BufferAgrees, Holds, Used, ReadsOldest
<1>2. ASSUME NEW c \in Context, Begin(c) PROVE IInv'
  BY <1>2, BeginControl, BeginFlags, BeginNumbers DEF IInv
<1>3. ASSUME NEW c \in Context, Write(c) PROVE IInv'
  <2>1. Control' /\ FlagsTell'
    BY <1>3, WriteControl, WriteFlags
  <2>2. Numbers'
    BY <1>3, TestsNumbers, LoadNumbers, WriteCopyNumbers, WriteHeadNumbers, WriteSizeNumbers
       DEF Write, Tests
  <2> QED
    BY <2>1, <2>2 DEF IInv
<1>4. ASSUME NEW c \in Context, Read(c) PROVE IInv'
  <2>1. Control' /\ FlagsTell'
    BY <1>4, ReadControl, ReadFlags
  <2>2. Numbers'
    BY <1>4, TestsNumbers, GrantNumbers, ReadCopyNumbers DEF Read, Tests
  <2> QED
    BY <2>1, <2>2 DEF IInv
<1>5. ASSUME NEW c \in Context, Clean(c) PROVE IInv'
  <2>1. Control' /\ FlagsTell'
    BY <1>5, CleanControl, CleanFlags
  <2>2. Numbers'
    BY <1>5, TestsNumbers, LoadNumbers, CleanEndNumbers, CleanSizeNumbers DEF Clean, Tests
  <2> QED
    BY <2>1, <2>2 DEF IInv
<1>6. ASSUME NEW c \in Context, Clear(c) PROVE IInv'
  <2>1. Control' /\ FlagsTell'
    BY <1>6, ClearControl, ClearFlags
  <2>2. Numbers'
    BY <1>6, TestsNumbers, ClearNumbers DEF Clear, Tests
  <2> QED
    BY <2>1, <2>2 DEF IInv
<1> QED
  BY <1>1, <1>2, <1>3, <1>4, <1>5, <1>6 DEF Next

(* For a buffer of any length and any number of elements, and programs of  *)
(* which the interrupt only peeks or neither context frees.                *)
THEOREM Inductive == ASSUME SoundPrograms PROVE Spec => []IInv
<1>1. Init => IInv
  BY Initially
<1> QED
  BY <1>1, NextKeeps, PTL DEF Spec

(* Every read copies out the oldest elements, in order and none twice.     *)
THEOREM OldestRead == ASSUME SoundPrograms PROVE Spec => []ReadsOldest
<1>1. IInv => ReadsOldest
  BY DEF IInv, Numbers
<1> QED
  BY <1>1, Inductive, PTL

(* With no call under way the flags are clear and the accounts are right.  *)
THEOREM QuietAccounts == ASSUME SoundPrograms PROVE Spec => []QuietAgrees
<1>1. IInv => QuietAgrees
  <2> SUFFICES ASSUME IInv, \A c \in Context : pc[c] = "idle"
               PROVE  /\ execution = {}
                      /\ size = Max - (accepted - freed)
                      /\ head = Wrap(end + (Max - size))
    BY DEF QuietAgrees
  <2>1. execution = {}
    BY DEF IInv, FlagsTell, Flag, Context, Writing, Reading, Cleaning, Clearing
  <2>2. size = Max - (accepted - freed)
    BY NestedAssumption DEF IInv, Numbers, Ranges, Used
  <2>3. head = Wrap(end + Used)
    BY DEF IInv, Numbers, HeadAgrees, Moved, Dropped, Reset
  <2> QED
    BY <2>1, <2>2, <2>3 DEF Used
<1> QED
  BY <1>1, Inductive, PTL
=============================================================================
