----------------------- MODULE HelperCommands_proofs -----------------------
(***************************************************************************)
(* Proofs about HelperCommands, for any number of processes, any argument  *)
(* lists, documents and answers, and any values of the bounds.             *)
(***************************************************************************)
EXTENDS HelperCommands, FiniteSetTheorems, SequenceTheorems, TLAPS

---------------------------------------------------------------------------
(* What a step makes of a process, field by field.                         *)

\* p is one of the records Process() makes, whatever its fields.
IsProcess(p) ==
  p = [pc |-> p.pc, intent |-> p.intent, command |-> p.command, input |-> p.input, exit |-> p.exit, out |-> p.out,
       inode |-> p.inode, holds |-> p.holds, temp |-> p.temp, rank |-> p.rank]

SameCommand(p, q) == q.intent = p.intent /\ q.command = p.command
SameGate(p, q) == q.inode = p.inode /\ q.holds = p.holds
SameWrite(p, q) == q.temp = p.temp /\ q.rank = p.rank
SameTalk(p, q) == q.input = p.input /\ q.out = p.out

\* A process that has nothing of the gate's and no temporary file.
Clear(p) == p.inode = 0 /\ p.holds = "nothing" /\ p.temp = "none" /\ p.rank = 0

\* What another process's step may do to p: an uninstall removes its temporary file.
Bystander(p, q) ==
  /\ q.pc = p.pc /\ q.exit = p.exit /\ q.rank = p.rank /\ q.temp \in {p.temp, "none"}
  /\ SameCommand(p, q) /\ SameGate(p, q) /\ SameTalk(p, q)

Processes == DOMAIN helper = Helpers /\ \A h \in Helpers : IsProcess(helper[h])

---------------------------------------------------------------------------
(* The records' fields, one at a time and several.                         *)

LEMMA SetPc ==
  ASSUME NEW p, IsProcess(p), NEW v, NEW q, q = [p EXCEPT !.pc = v]
  PROVE  /\ IsProcess(q) /\ q.pc = v /\ q.exit = p.exit
         /\ SameCommand(p, q) /\ SameGate(p, q) /\ SameWrite(p, q) /\ SameTalk(p, q)
BY DEF IsProcess, SameCommand, SameGate, SameWrite, SameTalk

LEMMA SetInput ==
  ASSUME NEW p, IsProcess(p), NEW v, NEW q, q = [p EXCEPT !.input = v]
  PROVE  /\ IsProcess(q) /\ q.input = v /\ q.pc = p.pc /\ q.exit = p.exit /\ q.out = p.out
         /\ SameCommand(p, q) /\ SameGate(p, q) /\ SameWrite(p, q)
BY DEF IsProcess, SameCommand, SameGate, SameWrite, SameTalk

LEMMA SetOut ==
  ASSUME NEW p, IsProcess(p), NEW v, NEW q, q = [p EXCEPT !.out = v]
  PROVE  /\ IsProcess(q) /\ q.out = v /\ q.pc = p.pc /\ q.exit = p.exit /\ q.input = p.input
         /\ SameCommand(p, q) /\ SameGate(p, q) /\ SameWrite(p, q)
BY DEF IsProcess, SameCommand, SameGate, SameWrite, SameTalk

LEMMA SetInode ==
  ASSUME NEW p, IsProcess(p), NEW v, NEW q, q = [p EXCEPT !.inode = v]
  PROVE  /\ IsProcess(q) /\ q.inode = v /\ q.pc = p.pc /\ q.exit = p.exit /\ q.holds = p.holds
         /\ SameCommand(p, q) /\ SameWrite(p, q) /\ SameTalk(p, q)
BY DEF IsProcess, SameCommand, SameGate, SameWrite, SameTalk

LEMMA SetHolds ==
  ASSUME NEW p, IsProcess(p), NEW v, NEW q, q = [p EXCEPT !.holds = v]
  PROVE  /\ IsProcess(q) /\ q.holds = v /\ q.pc = p.pc /\ q.exit = p.exit /\ q.inode = p.inode
         /\ SameCommand(p, q) /\ SameWrite(p, q) /\ SameTalk(p, q)
BY DEF IsProcess, SameCommand, SameGate, SameWrite, SameTalk

LEMMA SetTemp ==
  ASSUME NEW p, IsProcess(p), NEW v, NEW q, q = [p EXCEPT !.temp = v]
  PROVE  /\ IsProcess(q) /\ q.temp = v /\ q.pc = p.pc /\ q.exit = p.exit /\ q.rank = p.rank
         /\ SameCommand(p, q) /\ SameGate(p, q) /\ SameTalk(p, q)
BY DEF IsProcess, SameCommand, SameGate, SameWrite, SameTalk

LEMMA SetRank ==
  ASSUME NEW p, IsProcess(p), NEW v, NEW q, q = [p EXCEPT !.rank = v]
  PROVE  /\ IsProcess(q) /\ q.rank = v /\ q.pc = p.pc /\ q.exit = p.exit /\ q.temp = p.temp
         /\ SameCommand(p, q) /\ SameGate(p, q) /\ SameTalk(p, q)
BY DEF IsProcess, SameCommand, SameGate, SameWrite, SameTalk

OutInput(p, u, v) == [p EXCEPT !.out = u, !.input = v]

LEMMA OutInputFields ==
  ASSUME NEW p, IsProcess(p), NEW u, NEW v, NEW q, q = OutInput(p, u, v)
  PROVE  /\ IsProcess(q) /\ q.out = u /\ q.input = v /\ q.pc = p.pc /\ q.exit = p.exit
         /\ SameCommand(p, q) /\ SameGate(p, q) /\ SameWrite(p, q)
<1>1. PICK r : r = [p EXCEPT !.out = u]
  OBVIOUS
<1>2. /\ IsProcess(r) /\ r.out = u /\ r.pc = p.pc /\ r.exit = p.exit /\ r.input = p.input
      /\ SameCommand(p, r) /\ SameGate(p, r) /\ SameWrite(p, r)
  BY <1>1, SetOut
<1>3. q = [r EXCEPT !.input = v]
  BY <1>1 DEF OutInput
<1>4. /\ IsProcess(q) /\ q.input = v /\ q.pc = r.pc /\ q.exit = r.exit /\ q.out = r.out
      /\ SameCommand(r, q) /\ SameGate(r, q) /\ SameWrite(r, q)
  BY <1>3, <1>2, SetInput
<1> QED
  BY <1>2, <1>4 DEF SameCommand, SameGate, SameWrite, SameTalk

InputOut(p, u, v) == [p EXCEPT !.input = u, !.out = v]

LEMMA InputOutFields ==
  ASSUME NEW p, IsProcess(p), NEW u, NEW v, NEW q, q = InputOut(p, u, v)
  PROVE  /\ IsProcess(q) /\ q.input = u /\ q.out = v /\ q.pc = p.pc /\ q.exit = p.exit
         /\ SameCommand(p, q) /\ SameGate(p, q) /\ SameWrite(p, q)
<1>1. PICK r : r = [p EXCEPT !.input = u]
  OBVIOUS
<1>2. /\ IsProcess(r) /\ r.input = u /\ r.pc = p.pc /\ r.exit = p.exit /\ r.out = p.out
      /\ SameCommand(p, r) /\ SameGate(p, r) /\ SameWrite(p, r)
  BY <1>1, SetInput
<1>3. q = [r EXCEPT !.out = v]
  BY <1>1 DEF InputOut
<1>4. /\ IsProcess(q) /\ q.out = v /\ q.pc = r.pc /\ q.exit = r.exit /\ q.input = r.input
      /\ SameCommand(r, q) /\ SameGate(r, q) /\ SameWrite(r, q)
  BY <1>3, <1>2, SetOut
<1> QED
  BY <1>2, <1>4 DEF SameCommand, SameGate, SameWrite, SameTalk

PcInode(p, u, v) == [p EXCEPT !.pc = u, !.inode = v]

LEMMA PcInodeFields ==
  ASSUME NEW p, IsProcess(p), NEW u, NEW v, NEW q, q = PcInode(p, u, v)
  PROVE  /\ IsProcess(q) /\ q.pc = u /\ q.inode = v /\ q.exit = p.exit /\ q.holds = p.holds
         /\ SameCommand(p, q) /\ SameWrite(p, q) /\ SameTalk(p, q)
<1>1. PICK r : r = [p EXCEPT !.pc = u]
  OBVIOUS
<1>2. /\ IsProcess(r) /\ r.pc = u /\ r.exit = p.exit
      /\ SameCommand(p, r) /\ SameGate(p, r) /\ SameWrite(p, r) /\ SameTalk(p, r)
  BY <1>1, SetPc
<1>3. q = [r EXCEPT !.inode = v]
  BY <1>1 DEF PcInode
<1>4. /\ IsProcess(q) /\ q.inode = v /\ q.pc = r.pc /\ q.exit = r.exit /\ q.holds = r.holds
      /\ SameCommand(r, q) /\ SameWrite(r, q) /\ SameTalk(r, q)
  BY <1>3, <1>2, SetInode
<1> QED
  BY <1>2, <1>4 DEF SameCommand, SameGate, SameWrite, SameTalk

HoldsPc(p, u, v) == [p EXCEPT !.holds = u, !.pc = v]

LEMMA HoldsPcFields ==
  ASSUME NEW p, IsProcess(p), NEW u, NEW v, NEW q, q = HoldsPc(p, u, v)
  PROVE  /\ IsProcess(q) /\ q.holds = u /\ q.pc = v /\ q.exit = p.exit /\ q.inode = p.inode
         /\ SameCommand(p, q) /\ SameWrite(p, q) /\ SameTalk(p, q)
<1>1. PICK r : r = [p EXCEPT !.holds = u]
  OBVIOUS
<1>2. /\ IsProcess(r) /\ r.holds = u /\ r.pc = p.pc /\ r.exit = p.exit /\ r.inode = p.inode
      /\ SameCommand(p, r) /\ SameWrite(p, r) /\ SameTalk(p, r)
  BY <1>1, SetHolds
<1>3. q = [r EXCEPT !.pc = v]
  BY <1>1 DEF HoldsPc
<1>4. /\ IsProcess(q) /\ q.pc = v /\ q.exit = r.exit
      /\ SameCommand(r, q) /\ SameGate(r, q) /\ SameWrite(r, q) /\ SameTalk(r, q)
  BY <1>3, <1>2, SetPc
<1> QED
  BY <1>2, <1>4 DEF SameCommand, SameGate, SameWrite, SameTalk

PcOut(p, u, v) == [p EXCEPT !.pc = u, !.out = v]

LEMMA PcOutFields ==
  ASSUME NEW p, IsProcess(p), NEW u, NEW v, NEW q, q = PcOut(p, u, v)
  PROVE  /\ IsProcess(q) /\ q.pc = u /\ q.out = v /\ q.exit = p.exit /\ q.input = p.input
         /\ SameCommand(p, q) /\ SameGate(p, q) /\ SameWrite(p, q)
<1>1. PICK r : r = [p EXCEPT !.pc = u]
  OBVIOUS
<1>2. /\ IsProcess(r) /\ r.pc = u /\ r.exit = p.exit
      /\ SameCommand(p, r) /\ SameGate(p, r) /\ SameWrite(p, r) /\ SameTalk(p, r)
  BY <1>1, SetPc
<1>3. q = [r EXCEPT !.out = v]
  BY <1>1 DEF PcOut
<1>4. /\ IsProcess(q) /\ q.out = v /\ q.pc = r.pc /\ q.exit = r.exit /\ q.input = r.input
      /\ SameCommand(r, q) /\ SameGate(r, q) /\ SameWrite(r, q)
  BY <1>3, <1>2, SetOut
<1> QED
  BY <1>2, <1>4 DEF SameCommand, SameGate, SameWrite, SameTalk

PcTemp(p, u, v) == [p EXCEPT !.pc = u, !.temp = v]

LEMMA PcTempFields ==
  ASSUME NEW p, IsProcess(p), NEW u, NEW v, NEW q, q = PcTemp(p, u, v)
  PROVE  /\ IsProcess(q) /\ q.pc = u /\ q.temp = v /\ q.exit = p.exit /\ q.rank = p.rank
         /\ SameCommand(p, q) /\ SameGate(p, q) /\ SameTalk(p, q)
<1>1. PICK r : r = [p EXCEPT !.pc = u]
  OBVIOUS
<1>2. /\ IsProcess(r) /\ r.pc = u /\ r.exit = p.exit
      /\ SameCommand(p, r) /\ SameGate(p, r) /\ SameWrite(p, r) /\ SameTalk(p, r)
  BY <1>1, SetPc
<1>3. q = [r EXCEPT !.temp = v]
  BY <1>1 DEF PcTemp
<1>4. /\ IsProcess(q) /\ q.temp = v /\ q.pc = r.pc /\ q.exit = r.exit /\ q.rank = r.rank
      /\ SameCommand(r, q) /\ SameGate(r, q) /\ SameTalk(r, q)
  BY <1>3, <1>2, SetTemp
<1> QED
  BY <1>2, <1>4 DEF SameCommand, SameGate, SameWrite, SameTalk

PcTempRank(p, u, v, w) == [p EXCEPT !.pc = u, !.temp = v, !.rank = w]

LEMMA PcTempRankFields ==
  ASSUME NEW p, IsProcess(p), NEW u, NEW v, NEW w, NEW q, q = PcTempRank(p, u, v, w)
  PROVE  /\ IsProcess(q) /\ q.pc = u /\ q.temp = v /\ q.rank = w /\ q.exit = p.exit
         /\ SameCommand(p, q) /\ SameGate(p, q) /\ SameTalk(p, q)
<1>1. PICK r : r = [p EXCEPT !.pc = u]
  OBVIOUS
<1>2. /\ IsProcess(r) /\ r.pc = u /\ r.exit = p.exit
      /\ SameCommand(p, r) /\ SameGate(p, r) /\ SameWrite(p, r) /\ SameTalk(p, r)
  BY <1>1, SetPc
<1>3. PICK s : s = [r EXCEPT !.temp = v]
  OBVIOUS
<1>4. /\ IsProcess(s) /\ s.temp = v /\ s.pc = r.pc /\ s.exit = r.exit /\ s.rank = r.rank
      /\ SameCommand(r, s) /\ SameGate(r, s) /\ SameTalk(r, s)
  BY <1>3, <1>2, SetTemp
<1>5. q = [s EXCEPT !.rank = w]
  BY <1>1, <1>3 DEF PcTempRank
<1>6. /\ IsProcess(q) /\ q.rank = w /\ q.pc = s.pc /\ q.exit = s.exit /\ q.temp = s.temp
      /\ SameCommand(s, q) /\ SameGate(s, q) /\ SameTalk(s, q)
  BY <1>5, <1>4, SetRank
<1> QED
  BY <1>2, <1>4, <1>6 DEF SameCommand, SameGate, SameWrite, SameTalk

InputPc(p, u, v) == [p EXCEPT !.input = u, !.pc = v]

LEMMA InputPcFields ==
  ASSUME NEW p, IsProcess(p), NEW u, NEW v, NEW q, q = InputPc(p, u, v)
  PROVE  /\ IsProcess(q) /\ q.input = u /\ q.pc = v /\ q.exit = p.exit /\ q.out = p.out
         /\ SameCommand(p, q) /\ SameGate(p, q) /\ SameWrite(p, q)
<1>1. PICK r : r = [p EXCEPT !.input = u]
  OBVIOUS
<1>2. /\ IsProcess(r) /\ r.input = u /\ r.pc = p.pc /\ r.exit = p.exit /\ r.out = p.out
      /\ SameCommand(p, r) /\ SameGate(p, r) /\ SameWrite(p, r)
  BY <1>1, SetInput
<1>3. q = [r EXCEPT !.pc = v]
  BY <1>1 DEF InputPc
<1>4. /\ IsProcess(q) /\ q.pc = v /\ q.exit = r.exit
      /\ SameCommand(r, q) /\ SameGate(r, q) /\ SameWrite(r, q) /\ SameTalk(r, q)
  BY <1>3, <1>2, SetPc
<1> QED
  BY <1>2, <1>4 DEF SameCommand, SameGate, SameWrite, SameTalk

HoldsInodePc(p, u, v, w) == [p EXCEPT !.holds = u, !.inode = v, !.pc = w]

LEMMA HoldsInodePcFields ==
  ASSUME NEW p, IsProcess(p), NEW u, NEW v, NEW w, NEW q, q = HoldsInodePc(p, u, v, w)
  PROVE  /\ IsProcess(q) /\ q.holds = u /\ q.inode = v /\ q.pc = w /\ q.exit = p.exit
         /\ SameCommand(p, q) /\ SameWrite(p, q) /\ SameTalk(p, q)
<1>1. PICK r : r = [p EXCEPT !.holds = u]
  OBVIOUS
<1>2. /\ IsProcess(r) /\ r.holds = u /\ r.pc = p.pc /\ r.exit = p.exit /\ r.inode = p.inode
      /\ SameCommand(p, r) /\ SameWrite(p, r) /\ SameTalk(p, r)
  BY <1>1, SetHolds
<1>3. PICK s : s = [r EXCEPT !.inode = v]
  OBVIOUS
<1>4. /\ IsProcess(s) /\ s.inode = v /\ s.pc = r.pc /\ s.exit = r.exit /\ s.holds = r.holds
      /\ SameCommand(r, s) /\ SameWrite(r, s) /\ SameTalk(r, s)
  BY <1>3, <1>2, SetInode
<1>5. q = [s EXCEPT !.pc = w]
  BY <1>1, <1>3 DEF HoldsInodePc
<1>6. /\ IsProcess(q) /\ q.pc = w /\ q.exit = s.exit
      /\ SameCommand(s, q) /\ SameGate(s, q) /\ SameWrite(s, q) /\ SameTalk(s, q)
  BY <1>5, <1>4, SetPc
<1> QED
  BY <1>2, <1>4, <1>6 DEF SameCommand, SameGate, SameWrite, SameTalk

TempPc(p, u, v) == [p EXCEPT !.temp = u, !.pc = v]

LEMMA TempPcFields ==
  ASSUME NEW p, IsProcess(p), NEW u, NEW v, NEW q, q = TempPc(p, u, v)
  PROVE  /\ IsProcess(q) /\ q.temp = u /\ q.pc = v /\ q.exit = p.exit /\ q.rank = p.rank
         /\ SameCommand(p, q) /\ SameGate(p, q) /\ SameTalk(p, q)
<1>1. PICK r : r = [p EXCEPT !.temp = u]
  OBVIOUS
<1>2. /\ IsProcess(r) /\ r.temp = u /\ r.pc = p.pc /\ r.exit = p.exit /\ r.rank = p.rank
      /\ SameCommand(p, r) /\ SameGate(p, r) /\ SameTalk(p, r)
  BY <1>1, SetTemp
<1>3. q = [r EXCEPT !.pc = v]
  BY <1>1 DEF TempPc
<1>4. /\ IsProcess(q) /\ q.pc = v /\ q.exit = r.exit
      /\ SameCommand(r, q) /\ SameGate(r, q) /\ SameWrite(r, q) /\ SameTalk(r, q)
  BY <1>3, <1>2, SetPc
<1> QED
  BY <1>2, <1>4 DEF SameCommand, SameGate, SameWrite, SameTalk

---------------------------------------------------------------------------
(* What a step makes of the processes.                                     *)

\* A step of h that leaves the other processes what they are.
Moves(h) ==
  /\ Processes'
  /\ \A o \in Helpers \ {h} : Bystander(helper[o], helper'[o])

Ends(h, code) ==
  /\ helper'[h].pc = "done" /\ helper'[h].exit = code
  /\ SameCommand(helper[h], helper'[h]) /\ Clear(helper'[h])

LEMMA ProcessFields ==
  ASSUME NEW pc, NEW intent, NEW command, NEW exit
  PROVE  LET p == Process(pc, intent, command, exit)
         IN  /\ IsProcess(p) /\ Clear(p)
             /\ p.pc = pc /\ p.intent = intent /\ p.command = command /\ p.exit = exit
             /\ p.input = None /\ p.out = None
BY DEF Process, IsProcess, Clear

LEMMA Bystanders ==
  ASSUME Processes, NEW h \in Helpers, NEW p, IsProcess(p), helper' = [helper EXCEPT ![h] = p]
  PROVE  Moves(h) /\ helper'[h] = p
<1>1. DOMAIN helper' = Helpers /\ helper'[h] = p
  BY DEF Processes
<1>2. \A o \in Helpers \ {h} : helper'[o] = helper[o]
  BY DEF Processes
<1> QED
  BY <1>1, <1>2 DEF Processes, Moves, Bystander, SameCommand, SameGate, SameTalk

Becomes(h, p) == helper' = [helper EXCEPT ![h] = p]

LEMMA Renewed ==
  ASSUME Processes, NEW h \in Helpers, NEW pc, NEW intent, NEW command, NEW exit,
         Becomes(h, Process(pc, intent, command, exit))
  PROVE  /\ Moves(h) /\ Clear(helper'[h])
         /\ helper'[h].pc = pc /\ helper'[h].intent = intent
         /\ helper'[h].command = command /\ helper'[h].exit = exit
         /\ helper'[h].input = None /\ helper'[h].out = None
<1> DEFINE p == Process(pc, intent, command, exit)
<1>1. /\ IsProcess(p) /\ Clear(p) /\ p.pc = pc /\ p.intent = intent /\ p.command = command /\ p.exit = exit
      /\ p.input = None /\ p.out = None
  BY ProcessFields
<1>2. helper' = [helper EXCEPT ![h] = p]
  BY DEF Becomes
<1> HIDE DEF p
<1>3. Moves(h) /\ helper'[h] = p
  BY <1>1, <1>2, Bystanders
<1> QED
  BY <1>1, <1>3

LEMMA ExitMoves ==
  ASSUME Processes, NEW h \in Helpers, NEW code, Exit(h, code)
  PROVE  Moves(h) /\ Ends(h, code) /\ helper'[h].input = None
<1>1. Becomes(h, Process("done", helper[h].intent, helper[h].command, code))
  BY DEF Becomes, Exit, Ended
<1> QED
  BY <1>1, Renewed DEF Ends, SameCommand

LEMMA GotoMoves ==
  ASSUME Processes, NEW h \in Helpers, NEW pc, Goto(h, pc)
  PROVE  /\ Moves(h)
         /\ helper'[h].pc = pc
         /\ SameCommand(helper[h], helper'[h]) /\ SameGate(helper[h], helper'[h])
         /\ SameWrite(helper[h], helper'[h]) /\ SameTalk(helper[h], helper'[h])
<1>1. helper' = [helper EXCEPT ![h] = [helper[h] EXCEPT !.pc = pc]] /\ IsProcess(helper[h])
  BY DEF Goto, Processes
<1>2. LET q == [helper[h] EXCEPT !.pc = pc]
      IN  /\ IsProcess(q) /\ q.pc = pc
          /\ SameCommand(helper[h], q) /\ SameGate(helper[h], q)
          /\ SameWrite(helper[h], q) /\ SameTalk(helper[h], q)
  BY <1>1 DEF IsProcess, SameCommand, SameGate, SameWrite, SameTalk
<1> QED
  BY <1>1, <1>2, Bystanders

LEMMA BeginMoves ==
  ASSUME Processes, NEW h \in Helpers, NEW intent, NEW words, Begin(h, intent, words)
  PROVE  /\ Moves(h) /\ Clear(helper'[h])
         /\ helper'[h].intent = intent
         /\ \/ helper'[h].pc = "open" /\ helper'[h].command.verb \in Local
            \/ helper'[h].pc = "check" /\ helper'[h].command.verb = "update check"
            \/ helper'[h].pc = "done" /\ helper'[h].command.verb \notin Local \cup {"update check"}
         /\ helper'[h].command = Parse(words) \/ intent = None
<1> DEFINE command == Parse(words)
           kept == IF intent = None THEN Refused ELSE command
<1>1. Refused.verb \notin Local \cup {"update check"}
  BY DEF Refused, Local
<1>2. kept = command \/ (intent = None /\ kept = Refused)
  OBVIOUS
<1>3. \/ /\ command = Refused \/ command.verb \notin Local \cup {"update check"}
         /\ \E code : Becomes(h, Process("done", intent, kept, code))
      \/ command.verb \in Local /\ Becomes(h, Process("open", intent, command, 0))
      \/ command.verb = "update check" /\ Becomes(h, Process("check", intent, command, 0))
  BY DEF Begin, Becomes
<1> SUFFICES /\ Moves(h) /\ Clear(helper'[h])
             /\ helper'[h].intent = intent
             /\ \/ helper'[h].pc = "open" /\ helper'[h].command.verb \in Local
                \/ helper'[h].pc = "check" /\ helper'[h].command.verb = "update check"
                \/ helper'[h].pc = "done" /\ helper'[h].command.verb \notin Local \cup {"update check"}
             /\ helper'[h].command = command \/ intent = None
  OBVIOUS
<1> HIDE DEF command, kept
<1>4. ASSUME command = Refused \/ command.verb \notin Local \cup {"update check"},
             NEW code, Becomes(h, Process("done", intent, kept, code))
      PROVE  /\ Moves(h) /\ Clear(helper'[h])
             /\ helper'[h].intent = intent /\ helper'[h].pc = "done" /\ helper'[h].command = kept
             /\ kept.verb \notin Local \cup {"update check"}
  BY <1>1, <1>2, <1>4, Renewed
<1>5. CASE command.verb \in Local /\ Becomes(h, Process("open", intent, command, 0))
  <2>1. /\ Moves(h) /\ Clear(helper'[h])
        /\ helper'[h].pc = "open" /\ helper'[h].intent = intent /\ helper'[h].command = command
    BY <1>5, Renewed
  <2> QED
    BY <1>5, <2>1
<1>6. CASE command.verb = "update check" /\ Becomes(h, Process("check", intent, command, 0))
  <2>1. /\ Moves(h) /\ Clear(helper'[h])
        /\ helper'[h].pc = "check" /\ helper'[h].intent = intent /\ helper'[h].command = command
    BY <1>6, Renewed
  <2> QED
    BY <1>6, <2>1
<1> QED
  BY <1>2, <1>3, <1>4, <1>5, <1>6

---------------------------------------------------------------------------
(* The steps, as the fields of the process that takes them tell them.      *)

Still == UNCHANGED <<gateVars, fileVars>>

\* The plugin's process runs the command that its argument list is.
Asked(p) == p.intent # None => p.intent \in Intents /\ p.command = Parse(Argv(p.intent))

\* The check's answer is UpdateCheckRun()'s for what it was told.
Answered(p) ==
  \E answer, probe, git :
    /\ git \in BOOLEAN
    /\ p.input = [receipt |-> Fetched(answer), quickshell |-> probe, git |-> git]
    /\ p.out = UpdateCheckRun(answer, probe, git) /\ p.out # CheckFails

Advances(h, from, to) ==
  /\ Moves(h)
  /\ helper[h].pc = from /\ helper'[h].pc = to
  /\ SameCommand(helper[h], helper'[h])

AdvancesOnly(h, from, to) ==
  /\ Advances(h, from, to)
  /\ SameGate(helper[h], helper'[h]) /\ SameWrite(helper[h], helper'[h]) /\ SameTalk(helper[h], helper'[h])

Launches(h) ==
  /\ Moves(h) /\ Still
  /\ Clear(helper'[h]) /\ Asked(helper'[h])
  /\ \/ helper'[h].pc = "open" /\ helper'[h].command.verb \in Local
     \/ helper'[h].pc = "check" /\ helper'[h].command.verb = "update check"
     \/ helper'[h].pc = "done" /\ helper'[h].command.verb \notin Local \cup {"update check"}

Vanishes(h) ==
  /\ Moves(h) /\ Still
  /\ helper'[h].pc = "idle" /\ helper'[h].intent = None /\ Clear(helper'[h])

\* What config show tells of a settings file, and how it exits then.
ShowsFile(p) ==
  /\ p.out = ParseWithPolicy(p.input, TRUE)
  /\ p.exit = IF p.out = NoDocument THEN 3 ELSE 0

Leaves(h) ==
  /\ Moves(h) /\ Still
  /\ helper[h].pc \notin {"idle", "check", "done"} /\ \E code : Ends(h, code)
  /\ helper'[h].input \in {None, NoFile} \/ ShowsFile(helper'[h])

Checks(h) ==
  /\ Moves(h) /\ Still
  /\ helper[h].pc = "check"
  /\ \E code : Ends(h, code) /\ (code = 0 => Answered(helper'[h]))

Opens(h) ==
  /\ \/ helper[h].command.verb = "config show" /\ AdvancesOnly(h, "open", "read")
     \/ helper[h].command.verb = "config apply" /\ AdvancesOnly(h, "open", "input")
     \/ helper[h].command.verb = "uninstall" /\ AdvancesOnly(h, "open", "bind")
  /\ lockFile' = IF lockFile = 0 THEN inodes + 1 ELSE lockFile
  /\ inodes' = IF lockFile = 0 THEN inodes + 1 ELSE inodes
  /\ UNCHANGED fileVars

Binds(h) ==
  /\ Still
  /\ Advances(h, "bind", "acquire") /\ SameWrite(helper[h], helper'[h])
  /\ lockFile # 0 /\ helper'[h].inode = lockFile /\ helper'[h].holds = helper[h].holds

Acquires(h) ==
  /\ Still
  /\ Advances(h, "acquire", IF helper[h].command.verb = "uninstall" THEN "resolve" ELSE "create")
  /\ SameWrite(helper[h], helper'[h])
  /\ helper'[h].inode = helper[h].inode
  /\ helper'[h].holds = IF helper[h].command.verb = "uninstall" THEN "exclusive" ELSE "shared"
  /\ \A o \in Helpers \ {h} :
       helper[o].inode = helper[h].inode =>
         \/ helper[o].holds = "nothing"
         \/ helper[o].holds = "shared" /\ helper[h].command.verb # "uninstall"

Reads(h) ==
  /\ Still
  /\ Advances(h, "input", "bind")
  /\ SameGate(helper[h], helper'[h]) /\ SameWrite(helper[h], helper'[h])

Writes(h) ==
  /\ Still /\ SameGate(helper[h], helper'[h]) /\ helper'[h].rank = helper[h].rank
  /\ \/ Advances(h, "create", "write") /\ helper'[h].temp = "empty"
     \/ Advances(h, "write", "sync") /\ helper'[h].temp = helper[h].temp
     \/ /\ Advances(h, "sync", "mode")
        /\ helper'[h].temp = IF helper[h].temp = "empty" THEN "synced" ELSE helper[h].temp
     \/ Advances(h, "mode", "rename") /\ helper'[h].temp = helper[h].temp

Renames(h) ==
  /\ Advances(h, "rename", "syncdir") /\ SameGate(helper[h], helper'[h])
  /\ helper[h].temp # "none" /\ helper'[h].temp = "none" /\ helper'[h].rank = ranks + 1
  /\ \E bytes :
       LET replaced == [bytes |-> bytes, rank |-> ranks + 1, torn |-> helper[h].temp # "synced"]
       IN  file' = replaced /\ onDisk' = onDisk \cup {replaced}
  /\ ranks' = ranks + 1
  /\ UNCHANGED <<gateVars, saved>>

Saves(h) ==
  /\ Moves(h)
  /\ helper[h].pc = "syncdir" /\ Ends(h, 0)
  /\ onDisk' = {file}
  /\ saved' = IF helper[h].rank > saved THEN helper[h].rank ELSE saved
  /\ UNCHANGED <<gateVars, file, ranks>>

Confirms(h) ==
  /\ Still
  /\ Advances(h, "confirm", IF helper[h].command.purge THEN "purgeSettings" ELSE "release")
  /\ SameGate(helper[h], helper'[h]) /\ SameWrite(helper[h], helper'[h])
  /\ Confirmed(helper'[h].input, helper[h].command.purge)

Purges(h) ==
  /\ Moves(h)
  /\ \/ /\ Advances(h, "purgeSettings", "purgeCache")
        /\ SameGate(helper[h], helper'[h]) /\ SameTalk(helper[h], helper'[h])
        /\ helper'[h].temp = "none" /\ helper'[h].rank = helper[h].rank
     \/ helper[h].pc = "purgeSettings" /\ Ends(h, 5)
  /\ LET gone == [bytes |-> NoFile, rank |-> ranks + 1, torn |-> FALSE]
     IN  file' = gone /\ onDisk' = onDisk \cup {gone}
  /\ ranks' = ranks + 1
  /\ UNCHANGED <<gateVars, saved>>

Goes(h) ==
  /\ Still
  /\ AdvancesOnly(h, "resolve", "confirm") \/ AdvancesOnly(h, "purgeCache", "release")

Releases(h) ==
  /\ Still
  /\ Advances(h, "release", IF helper[h].command.purge THEN "purgeState" ELSE "delegate")
  /\ SameWrite(helper[h], helper'[h]) /\ SameTalk(helper[h], helper'[h])
  /\ helper'[h].inode = 0 /\ helper'[h].holds = "nothing"

Unlinks(h) ==
  /\ lockFile' = 0 /\ UNCHANGED <<inodes, fileVars>>
  /\ \/ AdvancesOnly(h, "purgeState", "delegate")
     \/ Moves(h) /\ helper[h].pc = "purgeState" /\ Ends(h, 5)

LEMMA Replaced ==
  ASSUME Processes, NEW h \in Helpers, NEW q, IsProcess(q), Becomes(h, q)
  PROVE  Moves(h) /\ helper'[h] = q
BY Bystanders DEF Becomes

LEMMA LaunchLaunches ==
  ASSUME Processes, NEW h \in Helpers, PluginStarts(h) \/ UserStarts(h)
  PROVE  Launches(h)
<1>1. Still
  BY DEF PluginStarts, UserStarts, Begin, Still
<1>2. CASE PluginStarts(h)
  <2>1. PICK intent \in Intents : Begin(h, intent, Argv(intent))
    BY <1>2 DEF PluginStarts
  <2>2. intent # None
    BY IntentAssumption
  <2> QED
    BY <1>1, <2>1, <2>2, BeginMoves DEF Launches, Asked
<1>3. CASE UserStarts(h)
  <2>1. PICK words \in Vectors : Begin(h, None, words)
    BY <1>3 DEF UserStarts
  <2> QED
    BY <1>1, <2>1, BeginMoves DEF Launches, Asked
<1> QED
  BY <1>2, <1>3

LEMMA ForgetVanishes ==
  ASSUME Processes, NEW h \in Helpers, Forget(h) \/ Kill(h)
  PROVE  Vanishes(h)
<1>1. Becomes(h, Process("idle", None, Refused, 0)) /\ Still
  BY DEF Forget, Kill, Fresh, Becomes, Still
<1> QED
  BY <1>1, Renewed DEF Vanishes

\* The steps that may fail end the process there, and change nothing else.
LEMMA EndedFields ==
  ASSUME NEW h \in Helpers, NEW code
  PROVE  LET p == Ended(h, code)
         IN  IsProcess(p) /\ p.pc = "done" /\ p.exit = code /\ SameCommand(helper[h], p) /\ Clear(p)
BY ProcessFields DEF Ended, SameCommand

LEMMA ExitLeaves ==
  ASSUME Processes, NEW h \in Helpers, NEW code, Exit(h, code), Still,
         helper[h].pc \notin {"idle", "check", "done"}
  PROVE  Leaves(h)
BY ExitMoves DEF Leaves

LEMMA CheckChecks == ASSUME Processes, NEW h \in Helpers, Check(h) PROVE Checks(h)
<1>1. PICK answer \in Receipts, probe \in Quickshells, git \in BOOLEAN :
        helper' = [helper EXCEPT ![h] =
          IF UpdateCheckRun(answer, probe, git) = CheckFails THEN Ended(h, 5)
          ELSE [Ended(h, 0) EXCEPT !.out = UpdateCheckRun(answer, probe, git),
                  !.input = [receipt |-> Fetched(answer), quickshell |-> probe, git |-> git]]]
  BY DEF Check
<1>2. At(h, "check") /\ Still
  BY DEF Check, Still, gateVars, fileVars
<1>3. CASE UpdateCheckRun(answer, probe, git) = CheckFails
  <2>1. Exit(h, 5)
    BY <1>1, <1>3 DEF Exit
  <2> QED
    BY <1>2, <2>1, ExitMoves DEF Checks, At
<1>4. CASE UpdateCheckRun(answer, probe, git) # CheckFails
  <2> DEFINE out == UpdateCheckRun(answer, probe, git)
             input == [receipt |-> Fetched(answer), quickshell |-> probe, git |-> git]
             p == Ended(h, 0)
             q == OutInput(p, out, input)
  <2>1. IsProcess(p) /\ p.pc = "done" /\ p.exit = 0 /\ SameCommand(helper[h], p) /\ Clear(p)
    BY ProcessFields DEF Ended, SameCommand
  <2>2. Becomes(h, q)
    BY <1>1, <1>4 DEF Becomes, OutInput
  <2> HIDE DEF p, out, input
  <2>3. /\ IsProcess(q) /\ q.pc = "done" /\ q.exit = 0 /\ q.out = out /\ q.input = input
        /\ SameCommand(helper[h], q) /\ Clear(q)
    BY <2>1, OutInputFields DEF SameCommand, SameGate, SameWrite, Clear
  <2>4. Moves(h) /\ helper'[h] = q
    BY <2>2, <2>3, Bystanders DEF Becomes
  <2>5. Answered(helper'[h])
    BY <1>4, <2>3, <2>4 DEF Answered, out, input
  <2> QED
    BY <1>2, <2>3, <2>4, <2>5 DEF Checks, Ends, At
<1> QED
  BY <1>3, <1>4

LEMMA OpenOpens ==
  ASSUME Processes, NEW h \in Helpers, Open(h), helper[h].command.verb \in Local
  PROVE  Opens(h) \/ Leaves(h)
<1> DEFINE to == CASE helper[h].command.verb = "config show"  -> "read"
                   [] helper[h].command.verb = "config apply" -> "input"
                   [] helper[h].command.verb = "uninstall"    -> "bind"
<1>1. \/ helper[h].command.verb = "config show" /\ to = "read"
      \/ helper[h].command.verb = "config apply" /\ to = "input"
      \/ helper[h].command.verb = "uninstall" /\ to = "bind"
  BY DEF Local
<1>2. CASE Exit(h, Failure(h)) /\ UNCHANGED gateVars
  <2>1. Still /\ helper[h].pc = "open"
    BY <1>2 DEF Open, Still, At
  <2> QED
    BY <1>2, <2>1, ExitLeaves
<1>3. CASE ~(Exit(h, Failure(h)) /\ UNCHANGED gateVars)
  <2>1. /\ Goto(h, to) /\ At(h, "open") /\ UNCHANGED fileVars
        /\ lockFile' = IF lockFile = 0 THEN inodes + 1 ELSE lockFile
        /\ inodes' = IF lockFile = 0 THEN inodes + 1 ELSE inodes
    BY <1>3 DEF Open
  <2> HIDE DEF to
  <2>2. AdvancesOnly(h, "open", to)
    BY <2>1, GotoMoves DEF AdvancesOnly, Advances, At
  <2> QED
    BY <1>1, <2>1, <2>2 DEF Opens
<1> QED
  BY <1>2, <1>3

LEMMA BindBinds ==
  ASSUME Processes, NEW h \in Helpers, Bind(h)
  PROVE  Binds(h) \/ Leaves(h)
<1>1. Still /\ helper[h].pc = "bind" /\ IsProcess(helper[h])
  BY DEF Bind, Still, At, Processes
<1>2. CASE Exit(h, Failure(h))
  BY <1>1, <1>2, ExitLeaves
<1>3. CASE lockFile # 0 /\ helper' = [helper EXCEPT ![h].pc = "acquire", ![h].inode = lockFile]
  <2>1. PICK q : q = PcInode(helper[h], "acquire", lockFile)
    OBVIOUS
  <2>2. /\ IsProcess(q) /\ q.pc = "acquire" /\ q.inode = lockFile /\ q.holds = helper[h].holds
        /\ SameCommand(helper[h], q) /\ SameWrite(helper[h], q)
    BY <1>1, <2>1, PcInodeFields
  <2>3. Becomes(h, q)
    BY <1>3, <2>1 DEF Becomes, Processes, PcInode
  <2>4. Moves(h) /\ helper'[h] = q
    BY <2>2, <2>3, Replaced
  <2> QED
    BY <1>1, <1>3, <2>2, <2>4 DEF Binds, Advances
<1> QED
  BY <1>2, <1>3 DEF Bind

LEMMA AcquireAcquires ==
  ASSUME Processes, NEW h \in Helpers, Acquire(h)
  PROVE  Acquires(h)
<1> DEFINE mode == Mode(helper[h].command)
           to == IF helper[h].command.verb = "uninstall" THEN "resolve" ELSE "create"
<1>1. Still /\ helper[h].pc = "acquire" /\ IsProcess(helper[h])
  BY DEF Acquire, Still, At, Processes
<1>2. \A o \in Helpers \ {h} :
        helper[o].inode = helper[h].inode =>
          \/ helper[o].holds = "nothing"
          \/ helper[o].holds = "shared" /\ helper[h].command.verb # "uninstall"
  BY DEF Acquire, Mode
<1>3. PICK q : q = HoldsPc(helper[h], mode, to)
  OBVIOUS
<1>4. /\ IsProcess(q) /\ q.holds = mode /\ q.pc = to /\ q.inode = helper[h].inode
      /\ SameCommand(helper[h], q) /\ SameWrite(helper[h], q)
  BY <1>1, <1>3, HoldsPcFields
<1>5. Becomes(h, q)
  BY <1>3 DEF Acquire, Becomes, Processes, HoldsPc
<1>6. Moves(h) /\ helper'[h] = q
  BY <1>4, <1>5, Replaced
<1> QED
  BY <1>1, <1>2, <1>4, <1>6 DEF Acquires, Advances, Mode

LEMMA ShowLeaves ==
  ASSUME Processes, NEW h \in Helpers, Show(h)
  PROVE  Leaves(h)
<1>7. Still /\ helper[h].pc = "read" /\ IsProcess(helper[h])
  BY DEF Show, Still, At, Processes
<1>10. CASE Exit(h, 3)
  BY <1>7, <1>10, ExitLeaves
<1>11. SUFFICES ASSUME ~Exit(h, 3) PROVE Leaves(h)
  BY <1>10
<1> DEFINE shown == IF file.bytes = NoFile THEN Defaults ELSE ParseWithPolicy(file.bytes, TRUE)
           code == IF shown = NoDocument THEN 3 ELSE 0
<1>1. PICK p : p = Ended(h, code)
  OBVIOUS
<1>2. IsProcess(p) /\ p.pc = "done" /\ p.exit = code /\ SameCommand(helper[h], p) /\ Clear(p)
  BY <1>1, EndedFields
<1>3. PICK q : q = InputOut(p, file.bytes, shown)
  OBVIOUS
<1> HIDE DEF shown, code
<1>4. IsProcess(q) /\ q.pc = "done" /\ q.exit = code /\ SameCommand(helper[h], q) /\ Clear(q)
  BY <1>2, <1>3, InputOutFields DEF SameCommand, SameGate, SameWrite, Clear
<1>5. Becomes(h, q)
  BY <1>1, <1>3, <1>11 DEF Show, Becomes, InputOut, shown, code
<1>6. Moves(h) /\ helper'[h] = q
  BY <1>4, <1>5, Replaced
<1>8. q.input = file.bytes /\ q.out = shown
  BY <1>2, <1>3, InputOutFields
<1>9. q.input \in {None, NoFile} \/ ShowsFile(q)
  <2>1. file.bytes # NoFile => shown = ParseWithPolicy(file.bytes, TRUE)
    BY DEF shown
  <2>2. code = IF shown = NoDocument THEN 3 ELSE 0
    BY DEF code
  <2> QED
    BY <1>4, <1>8, <2>1, <2>2 DEF ShowsFile
<1> QED
  BY <1>4, <1>6, <1>7, <1>9 DEF Leaves, Ends

LEMMA ReadReads ==
  ASSUME Processes, NEW h \in Helpers, ReadDocument(h)
  PROVE  Reads(h) \/ Leaves(h)
<1>1. Still /\ helper[h].pc = "input" /\ IsProcess(helper[h])
  BY DEF ReadDocument, Still, At, Processes
<1>2. CASE Exit(h, 3)
  BY <1>1, <1>2, ExitLeaves
<1>3. CASE \E raw \in Documents : helper' = [helper EXCEPT ![h].pc = "bind", ![h].out = ParseStrict(raw)]
  <2>1. PICK raw \in Documents : helper' = [helper EXCEPT ![h].pc = "bind", ![h].out = ParseStrict(raw)]
    BY <1>3
  <2>2. PICK q : q = PcOut(helper[h], "bind", ParseStrict(raw))
    OBVIOUS
  <2>3. /\ IsProcess(q) /\ q.pc = "bind"
        /\ SameCommand(helper[h], q) /\ SameGate(helper[h], q) /\ SameWrite(helper[h], q)
    BY <1>1, <2>2, PcOutFields
  <2>4. Becomes(h, q)
    BY <2>1, <2>2 DEF Becomes, Processes, PcOut
  <2>5. Moves(h) /\ helper'[h] = q
    BY <2>3, <2>4, Replaced
  <2> QED
    BY <1>1, <2>3, <2>5 DEF Reads, Advances
<1> QED
  BY <1>2, <1>3 DEF ReadDocument

\* The steps of replace_atomically_with(), in order.
LEMMA WritingSteps ==
  ASSUME NEW h \in Helpers
  PROVE  /\ Writing(h) => helper[h].pc \in {"create", "write", "sync", "mode", "rename", "syncdir"}
         /\ At(h, "create") => NextStep(h) = "write"
         /\ At(h, "write") => NextStep(h) = "sync"
         /\ At(h, "sync") => NextStep(h) = "mode"
         /\ At(h, "mode") => NextStep(h) = "rename"
         /\ At(h, "rename") => NextStep(h) = "syncdir"
<1>1. DOMAIN ReplaceSteps = 1..6
  BY DEF ReplaceSteps
<1>2. /\ ReplaceSteps[1] = "create" /\ ReplaceSteps[2] = "write" /\ ReplaceSteps[3] = "sync"
      /\ ReplaceSteps[4] = "mode" /\ ReplaceSteps[5] = "rename" /\ ReplaceSteps[6] = "syncdir"
  BY DEF ReplaceSteps
<1>3. Writing(h) => helper[h].pc \in {"create", "write", "sync", "mode", "rename", "syncdir"}
  BY <1>1, <1>2 DEF Writing, At
<1>4. ASSUME NEW i \in 1..6, At(h, ReplaceSteps[i]) PROVE NextStep(h) = ReplaceSteps[i + 1]
  <2>1. ASSUME NEW j \in 1..6, At(h, ReplaceSteps[j]) PROVE j = i
    <3>1. ReplaceSteps[i] = ReplaceSteps[j]
      BY <1>4, <2>1 DEF At
    <3>2. i = 1 \/ i = 2 \/ i = 3 \/ i = 4 \/ i = 5 \/ i = 6
      OBVIOUS
    <3>3. j = 1 \/ j = 2 \/ j = 3 \/ j = 4 \/ j = 5 \/ j = 6
      OBVIOUS
    <3> QED
      BY <1>2, <3>1, <3>2, <3>3
  <2> DEFINE k == CHOOSE k \in DOMAIN ReplaceSteps : At(h, ReplaceSteps[k])
  <2>2. k = i
    BY <1>1, <1>4, <2>1
  <2> QED
    BY <2>2 DEF NextStep
<1> QED
  BY <1>2, <1>3, <1>4

LEMMA WriteWrites ==
  ASSUME Processes, NEW h \in Helpers, WriteTemp(h)
  PROVE  Writes(h)
<1>1. Still /\ IsProcess(helper[h])
  BY DEF WriteTemp, Still, Processes
<1>2. ASSUME NEW to, NEW temp, helper' = [helper EXCEPT ![h].pc = to, ![h].temp = temp]
      PROVE  /\ Moves(h) /\ helper'[h].pc = to /\ helper'[h].temp = temp
             /\ SameCommand(helper[h], helper'[h]) /\ SameGate(helper[h], helper'[h])
             /\ helper'[h].rank = helper[h].rank
  <2>1. PICK q : q = PcTemp(helper[h], to, temp)
    OBVIOUS
  <2>2. /\ IsProcess(q) /\ q.pc = to /\ q.temp = temp /\ q.rank = helper[h].rank
        /\ SameCommand(helper[h], q) /\ SameGate(helper[h], q)
    BY <1>1, <2>1, PcTempFields
  <2>3. Becomes(h, q)
    BY <1>2, <2>1 DEF Becomes, Processes, PcTemp
  <2>4. Moves(h) /\ helper'[h] = q
    BY <2>2, <2>3, Replaced
  <2> QED
    BY <2>2, <2>4
<1>3. CASE At(h, "create") /\ helper' = [helper EXCEPT ![h].pc = NextStep(h), ![h].temp = "empty"]
  BY <1>1, <1>2, <1>3, WritingSteps DEF Writes, Advances, At
<1>4. CASE At(h, "write") /\ Goto(h, NextStep(h))
  BY <1>1, <1>4, WritingSteps, GotoMoves DEF Writes, Advances, At, SameWrite
<1>5. CASE /\ At(h, "sync")
           /\ helper' = [helper EXCEPT ![h].pc = NextStep(h), ![h].temp = IF @ = "empty" THEN "synced" ELSE @]
  <2> DEFINE temp == IF helper[h].temp = "empty" THEN "synced" ELSE helper[h].temp
  <2>1. helper' = [helper EXCEPT ![h].pc = NextStep(h), ![h].temp = temp]
    BY <1>5
  <2> HIDE DEF temp
  <2>2. /\ Moves(h) /\ helper'[h].pc = NextStep(h) /\ helper'[h].temp = temp
        /\ SameCommand(helper[h], helper'[h]) /\ SameGate(helper[h], helper'[h])
        /\ helper'[h].rank = helper[h].rank
    BY <1>2, <2>1
  <2>3. helper[h].pc = "sync" /\ NextStep(h) = "mode"
    BY <1>5, WritingSteps DEF At
  <2> QED
    BY <1>1, <2>2, <2>3 DEF Writes, Advances, temp
<1>6. CASE At(h, "mode") /\ helper[h].temp # "none" /\ Goto(h, NextStep(h))
  BY <1>1, <1>6, WritingSteps, GotoMoves DEF Writes, Advances, At, SameWrite
<1> QED
  BY <1>3, <1>4, <1>5, <1>6 DEF WriteTemp

LEMMA RenameRenames ==
  ASSUME Processes, NEW h \in Helpers, RenameTemp(h)
  PROVE  Renames(h)
<1>1. PICK q : q = PcTempRank(helper[h], NextStep(h), "none", ranks + 1)
  OBVIOUS
<1>2. IsProcess(helper[h]) /\ helper[h].pc = "rename" /\ NextStep(h) = "syncdir"
  BY WritingSteps DEF RenameTemp, Processes, At
<1>3. /\ IsProcess(q) /\ q.pc = "syncdir" /\ q.temp = "none" /\ q.rank = ranks + 1
      /\ SameCommand(helper[h], q) /\ SameGate(helper[h], q)
  BY <1>1, <1>2, PcTempRankFields
<1>4. Becomes(h, q)
  BY <1>1 DEF RenameTemp, Becomes, Processes, PcTempRank
<1>5. Moves(h) /\ helper'[h] = q
  BY <1>3, <1>4, Replaced
<1>6. /\ helper[h].temp # "none"
      /\ \E bytes :
           LET replaced == [bytes |-> bytes, rank |-> ranks + 1, torn |-> helper[h].temp # "synced"]
           IN  file' = replaced /\ onDisk' = onDisk \cup {replaced}
      /\ ranks' = ranks + 1
      /\ UNCHANGED <<gateVars, saved>>
  BY DEF RenameTemp
<1> QED
  BY <1>2, <1>3, <1>5, <1>6 DEF Renames, Advances

LEMMA SyncSaves ==
  ASSUME Processes, NEW h \in Helpers, SyncDirectory(h)
  PROVE  Saves(h)
BY ExitMoves DEF SyncDirectory, Saves, At

LEMMA ConfirmConfirms ==
  ASSUME Processes, NEW h \in Helpers, Confirm(h)
  PROVE  Confirms(h) \/ Leaves(h)
<1> DEFINE to == IF helper[h].command.purge THEN "purgeSettings" ELSE "release"
<1>1. Still /\ helper[h].pc = "confirm" /\ IsProcess(helper[h])
  BY DEF Confirm, Still, At, Processes
<1>2. CASE Exit(h, 70) \/ Exit(h, 3)
  BY <1>1, <1>2, ExitLeaves
<1>3. ASSUME NEW answer, Confirmed(answer, helper[h].command.purge),
             helper' = [helper EXCEPT ![h].input = answer, ![h].pc = to]
      PROVE  Confirms(h)
  <2>1. PICK q : q = InputPc(helper[h], answer, to)
    OBVIOUS
  <2>2. /\ IsProcess(q) /\ q.pc = to /\ q.input = answer
        /\ SameCommand(helper[h], q) /\ SameGate(helper[h], q) /\ SameWrite(helper[h], q)
    BY <1>1, <2>1, InputPcFields
  <2>3. Becomes(h, q)
    BY <1>3, <2>1 DEF Becomes, Processes, InputPc
  <2>4. Moves(h) /\ helper'[h] = q
    BY <2>2, <2>3, Replaced
  <2> QED
    BY <1>1, <1>3, <2>2, <2>4 DEF Confirms, Advances
<1> QED
  BY <1>2, <1>3 DEF Confirm

LEMMA PurgePurges ==
  ASSUME Processes, NEW h \in Helpers, PurgeSettings(h)
  PROVE  Purges(h) \/ Leaves(h)
<1> DEFINE without == [o \in Helpers |-> [helper[o] EXCEPT !.temp = "none"]]
           gone == [bytes |-> NoFile, rank |-> ranks + 1, torn |-> FALSE]
<1>1. helper[h].pc = "purgeSettings" /\ UNCHANGED gateVars
  BY DEF PurgeSettings, At
<1>2. ASSUME NEW o \in Helpers
      PROVE  LET q == [helper[o] EXCEPT !.temp = "none"]
             IN  /\ IsProcess(q) /\ q.temp = "none" /\ q.pc = helper[o].pc /\ q.exit = helper[o].exit
                 /\ q.rank = helper[o].rank
                 /\ SameCommand(helper[o], q) /\ SameGate(helper[o], q) /\ SameTalk(helper[o], q)
  <2>1. IsProcess(helper[o])
    BY DEF Processes
  <2>2. PICK q : q = [helper[o] EXCEPT !.temp = "none"]
    OBVIOUS
  <2>3. /\ IsProcess(q) /\ q.temp = "none" /\ q.pc = helper[o].pc /\ q.exit = helper[o].exit
        /\ q.rank = helper[o].rank
        /\ SameCommand(helper[o], q) /\ SameGate(helper[o], q) /\ SameTalk(helper[o], q)
    BY <2>1, <2>2, SetTemp
  <2> QED
    BY <2>2, <2>3
<1>3. CASE Exit(h, 5) /\ UNCHANGED fileVars
  <2>1. Still
    BY <1>1, <1>3 DEF Still
  <2> QED
    BY <1>1, <1>3, <2>1, ExitLeaves
<1>4. ASSUME NEW q, IsProcess(q), helper' = [without EXCEPT ![h] = q]
      PROVE  Moves(h) /\ helper'[h] = q
  <2>1. DOMAIN helper' = Helpers /\ helper'[h] = q
    BY <1>4
  <2>2. \A o \in Helpers \ {h} : helper'[o] = [helper[o] EXCEPT !.temp = "none"]
    BY <1>4
  <2>3. \A o \in Helpers \ {h} : IsProcess(helper'[o]) /\ Bystander(helper[o], helper'[o])
    BY <1>2, <2>2 DEF Bystander
  <2> QED
    BY <1>4, <2>1, <2>3 DEF Moves, Processes
<1>5. ASSUME helper' = [without EXCEPT ![h].pc = "purgeCache"]
      PROVE  /\ Advances(h, "purgeSettings", "purgeCache")
             /\ SameGate(helper[h], helper'[h]) /\ SameTalk(helper[h], helper'[h])
             /\ helper'[h].temp = "none" /\ helper'[h].rank = helper[h].rank
  <2>1. PICK q : q = TempPc(helper[h], "none", "purgeCache")
    OBVIOUS
  <2>2. /\ IsProcess(q) /\ q.pc = "purgeCache" /\ q.temp = "none" /\ q.rank = helper[h].rank
        /\ SameCommand(helper[h], q) /\ SameGate(helper[h], q) /\ SameTalk(helper[h], q)
    BY <2>1, TempPcFields DEF Processes
  <2>3. helper' = [without EXCEPT ![h] = q]
    BY <1>5, <2>1 DEF TempPc
  <2>4. Moves(h) /\ helper'[h] = q
    BY <1>4, <2>2, <2>3
  <2> QED
    BY <1>1, <2>2, <2>4 DEF Advances
<1>6. ASSUME helper' = [without EXCEPT ![h] = Ended(h, 5)]
      PROVE  Moves(h) /\ Ends(h, 5)
  <2>1. PICK q : q = Ended(h, 5)
    OBVIOUS
  <2>2. IsProcess(q) /\ q.pc = "done" /\ q.exit = 5 /\ SameCommand(helper[h], q) /\ Clear(q)
    BY <2>1, EndedFields
  <2>3. Moves(h) /\ helper'[h] = q
    BY <1>4, <1>6, <2>1, <2>2
  <2> QED
    BY <2>2, <2>3 DEF Ends
<1>7. ASSUME ~(Exit(h, 5) /\ UNCHANGED fileVars)
      PROVE  Purges(h)
  <2>1. /\ file' = gone /\ onDisk' = onDisk \cup {gone} /\ ranks' = ranks + 1 /\ UNCHANGED saved
        /\ \/ helper' = [without EXCEPT ![h].pc = "purgeCache"]
           \/ helper' = [without EXCEPT ![h] = Ended(h, 5)]
    BY <1>7 DEF PurgeSettings
  <2>2. /\ Moves(h)
        /\ \/ /\ Advances(h, "purgeSettings", "purgeCache")
              /\ SameGate(helper[h], helper'[h]) /\ SameTalk(helper[h], helper'[h])
              /\ helper'[h].temp = "none" /\ helper'[h].rank = helper[h].rank
           \/ helper[h].pc = "purgeSettings" /\ Ends(h, 5)
    BY <1>1, <1>5, <1>6, <2>1 DEF Advances
  <2> QED
    BY <1>1, <2>1, <2>2 DEF Purges
<1> QED
  BY <1>3, <1>7

LEMMA ReleaseReleases ==
  ASSUME Processes, NEW h \in Helpers, Release(h)
  PROVE  Releases(h)
<1> DEFINE to == IF helper[h].command.purge THEN "purgeState" ELSE "delegate"
<1>1. PICK q : q = HoldsInodePc(helper[h], "nothing", 0, to)
  OBVIOUS
<1>2. Still /\ IsProcess(helper[h]) /\ helper[h].pc = "release"
  BY DEF Release, Still, Processes, At
<1>3. Becomes(h, q)
  BY <1>1 DEF Release, Becomes, Processes, HoldsInodePc
<1>4. /\ IsProcess(q) /\ q.pc = to /\ q.inode = 0 /\ q.holds = "nothing"
      /\ SameCommand(helper[h], q) /\ SameWrite(helper[h], q) /\ SameTalk(helper[h], q)
  BY <1>1, <1>2, HoldsInodePcFields
<1>5. Moves(h) /\ helper'[h] = q
  BY <1>3, <1>4, Replaced
<1> QED
  BY <1>2, <1>4, <1>5 DEF Releases, Advances

LEMMA ResolveGoes ==
  ASSUME Processes, NEW h \in Helpers, Resolve(h) \/ PurgeCache(h)
  PROVE  Goes(h) \/ Leaves(h)
<1>1. Still
  BY DEF Resolve, PurgeCache, Still
<1>2. CASE helper[h].pc \in {"resolve", "purgeCache"} /\ Exit(h, 5)
  BY <1>1, <1>2, ExitLeaves
<1>3. CASE helper[h].pc = "resolve" /\ Goto(h, "confirm")
  BY <1>1, <1>3, GotoMoves DEF Goes, AdvancesOnly, Advances
<1>4. CASE helper[h].pc = "purgeCache" /\ Goto(h, "release")
  BY <1>1, <1>4, GotoMoves DEF Goes, AdvancesOnly, Advances
<1> QED
  BY <1>2, <1>3, <1>4 DEF Resolve, PurgeCache, At

LEMMA PurgeStateUnlinks ==
  ASSUME Processes, NEW h \in Helpers, PurgeState(h)
  PROVE  Unlinks(h) \/ Leaves(h)
<1>1. helper[h].pc = "purgeState" /\ UNCHANGED <<inodes, fileVars>>
  BY DEF PurgeState, At
<1>2. CASE Exit(h, 5) /\ UNCHANGED lockFile
  <2>1. Still
    BY <1>1, <1>2 DEF Still, gateVars
  <2> QED
    BY <1>1, <1>2, <2>1, ExitLeaves
<1>3. CASE lockFile' = 0 /\ Exit(h, 5)
  BY <1>1, <1>3, ExitMoves DEF Unlinks
<1>4. CASE lockFile' = 0 /\ Goto(h, "delegate")
  BY <1>1, <1>4, GotoMoves DEF Unlinks, AdvancesOnly, Advances
<1> QED
  BY <1>2, <1>3, <1>4 DEF PurgeState

LEMMA EndLeaves ==
  ASSUME Processes, NEW h \in Helpers, WriteFails(h) \/ Delegate(h)
  PROVE  Leaves(h)
<1>1. Still
  BY DEF WriteFails, Delegate, Still
<1>2. CASE WriteFails(h)
  BY <1>1, <1>2, WritingSteps, ExitLeaves DEF WriteFails
<1>3. CASE Delegate(h)
  BY <1>1, <1>3, ExitLeaves DEF Delegate, At
<1> QED
  BY <1>2, <1>3

\* Every process's command leads it past the gate only when it is one of Local.
LocalPastGate == \A h \in Helpers : helper[h].pc = "open" => helper[h].command.verb \in Local

LEMMA StepCases ==
  ASSUME Processes, LocalPastGate, [Next]_vars
  PROVE  \/ \E h \in Helpers :
              \/ Launches(h) \/ Vanishes(h) \/ Leaves(h) \/ Checks(h)
              \/ Opens(h) \/ Binds(h) \/ Acquires(h)
              \/ Reads(h) \/ Writes(h) \/ Renames(h) \/ Saves(h)
              \/ Goes(h) \/ Confirms(h) \/ Purges(h) \/ Releases(h) \/ Unlinks(h)
         \/ PowerLoss
         \/ UNCHANGED vars
<1>1. ASSUME NEW h \in Helpers, Open(h) PROVE Opens(h) \/ Leaves(h)
  BY <1>1, OpenOpens DEF LocalPastGate, Open, At
<1> QED
  BY <1>1, LaunchLaunches, ForgetVanishes, CheckChecks, BindBinds, AcquireAcquires, ShowLeaves, ReadReads,
     WriteWrites, RenameRenames, SyncSaves, ConfirmConfirms, PurgePurges, ReleaseReleases, ResolveGoes,
     PurgeStateUnlinks, EndLeaves DEF Next

---------------------------------------------------------------------------
(* Where each process is, by its command, and what it has of the gate's.   *)

WriteSteps == {"create", "write", "sync", "mode", "rename", "syncdir"}
LockedSteps == {"resolve", "confirm", "purgeSettings", "purgeCache", "release"}

\* A process is only where its command leads, and it holds the gate exactly
\* from Acquire to its end or to Release.
Fits(p) ==
  /\ p.pc \in {"idle", "done", "open", "check", "read", "input", "bind", "acquire", "purgeState", "delegate"}
              \cup WriteSteps \cup LockedSteps
  /\ p.pc = "open" => p.command.verb \in Local
  /\ p.pc = "check" => p.command.verb = "update check"
  /\ p.pc = "read" => p.command.verb = "config show"
  /\ p.pc \in {"input"} \cup WriteSteps => p.command.verb = "config apply"
  /\ p.pc \in {"bind", "acquire"} => p.command.verb \in {"config apply", "uninstall"}
  /\ p.pc \in LockedSteps \cup {"purgeState", "delegate"} => p.command.verb = "uninstall"
  /\ p.holds = IF p.pc \in WriteSteps THEN "shared" ELSE IF p.pc \in LockedSteps THEN "exclusive" ELSE "nothing"

Fitting == \A h \in Helpers : Fits(helper[h])

\* Who is at the lock is there with an inode that a lock file has had.
Bound ==
  /\ lockFile \in Nat /\ inodes \in Nat /\ lockFile <= inodes
  /\ \A h \in Helpers :
       helper[h].pc \in {"acquire"} \cup WriteSteps \cup LockedSteps => helper[h].inode \in 1..inodes

\* The lock itself: who has a lock file exclusively has it alone.
Excluded ==
  \A u, w \in Helpers :
    u # w /\ helper[u].inode = helper[w].inode /\ helper[u].holds = "exclusive" => helper[w].holds = "nothing"

Control == Processes /\ Fitting /\ Bound /\ Excluded

LEMMA FreshFits == IsProcess(Fresh) /\ Clear(Fresh) /\ Fresh.pc = "idle" /\ Fresh.intent = None /\ Fits(Fresh)
<1>1. IsProcess(Fresh) /\ Clear(Fresh) /\ Fresh.pc = "idle" /\ Fresh.intent = None
  BY ProcessFields DEF Fresh
<1> HIDE DEF Fresh
<1> QED
  BY <1>1 DEF Fits, Clear, WriteSteps, LockedSteps

LEMMA InitControl == Init => Control
<1> SUFFICES ASSUME Init PROVE Control
  OBVIOUS
<1>1. DOMAIN helper = Helpers /\ \A h \in Helpers : helper[h] = Fresh
  BY DEF Init
<1>2. Processes /\ Fitting
  BY <1>1, FreshFits DEF Processes, Fitting
<1>3. Bound
  BY <1>1, FreshFits DEF Init, Bound, WriteSteps, LockedSteps
<1>4. Excluded
  BY <1>1, FreshFits DEF Excluded, Clear
<1> QED
  BY <1>2, <1>3, <1>4 DEF Control

LEMMA LostControl ==
  ASSUME PowerLoss
  PROVE  DOMAIN helper' = Helpers /\ \A h \in Helpers : helper'[h] = Fresh
BY DEF PowerLoss

\* What another process's step does to a process takes it nowhere.
LEMMA BystanderFits ==
  ASSUME NEW p, NEW q, Bystander(p, q), Fits(p)
  PROVE  Fits(q)
BY DEF Bystander, SameCommand, SameGate, Fits

LEMMA NextFitting == Control /\ [Next]_vars => Fitting'
<1> SUFFICES ASSUME Control, [Next]_vars PROVE Fitting'
  OBVIOUS
<1>1. ASSUME NEW h \in Helpers, Launches(h) PROVE Fitting'
  <2>1. Fits(helper'[h])
    BY <1>1 DEF Launches, Control, Fitting, Fits, Moves, Local, WriteSteps, LockedSteps, SameCommand, SameGate,
       SameWrite, SameTalk, Clear, Ends, Advances, AdvancesOnly
  <2>2. \A o \in Helpers \ {h} : Fits(helper'[o])
    BY <1>1, BystanderFits DEF Launches, Control, Fitting, Moves, Advances, AdvancesOnly
  <2> QED
    BY <2>1, <2>2 DEF Fitting
<1>2. ASSUME NEW h \in Helpers, Vanishes(h) PROVE Fitting'
  <2>1. Fits(helper'[h])
    BY <1>2 DEF Vanishes, Control, Fitting, Fits, Moves, Local, WriteSteps, LockedSteps, SameCommand, SameGate,
       SameWrite, SameTalk, Clear, Ends, Advances, AdvancesOnly
  <2>2. \A o \in Helpers \ {h} : Fits(helper'[o])
    BY <1>2, BystanderFits DEF Vanishes, Control, Fitting, Moves, Advances, AdvancesOnly
  <2> QED
    BY <2>1, <2>2 DEF Fitting
<1>3. ASSUME NEW h \in Helpers, Leaves(h) PROVE Fitting'
  <2>1. Fits(helper'[h])
    BY <1>3 DEF Leaves, Control, Fitting, Fits, Moves, Local, WriteSteps, LockedSteps, SameCommand, SameGate,
       SameWrite, SameTalk, Clear, Ends, Advances, AdvancesOnly
  <2>2. \A o \in Helpers \ {h} : Fits(helper'[o])
    BY <1>3, BystanderFits DEF Leaves, Control, Fitting, Moves, Advances, AdvancesOnly
  <2> QED
    BY <2>1, <2>2 DEF Fitting
<1>4. ASSUME NEW h \in Helpers, Checks(h) PROVE Fitting'
  <2>1. Fits(helper'[h])
    BY <1>4 DEF Checks, Control, Fitting, Fits, Moves, Local, WriteSteps, LockedSteps, SameCommand, SameGate,
       SameWrite, SameTalk, Clear, Ends, Advances, AdvancesOnly
  <2>2. \A o \in Helpers \ {h} : Fits(helper'[o])
    BY <1>4, BystanderFits DEF Checks, Control, Fitting, Moves, Advances, AdvancesOnly
  <2> QED
    BY <2>1, <2>2 DEF Fitting
<1>5. ASSUME NEW h \in Helpers, Opens(h) PROVE Fitting'
  <2>1. Fits(helper'[h])
    BY <1>5 DEF Opens, Control, Fitting, Fits, Moves, Local, WriteSteps, LockedSteps, SameCommand, SameGate,
       SameWrite, SameTalk, Clear, Ends, Advances, AdvancesOnly
  <2>2. \A o \in Helpers \ {h} : Fits(helper'[o])
    BY <1>5, BystanderFits DEF Opens, Control, Fitting, Moves, Advances, AdvancesOnly
  <2> QED
    BY <2>1, <2>2 DEF Fitting
<1>6. ASSUME NEW h \in Helpers, Binds(h) PROVE Fitting'
  <2>1. Fits(helper'[h])
    BY <1>6 DEF Binds, Control, Fitting, Fits, Moves, Local, WriteSteps, LockedSteps, SameCommand, SameGate,
       SameWrite, SameTalk, Clear, Ends, Advances, AdvancesOnly
  <2>2. \A o \in Helpers \ {h} : Fits(helper'[o])
    BY <1>6, BystanderFits DEF Binds, Control, Fitting, Moves, Advances, AdvancesOnly
  <2> QED
    BY <2>1, <2>2 DEF Fitting
<1>7. ASSUME NEW h \in Helpers, Acquires(h) PROVE Fitting'
  <2>1. Fits(helper'[h])
    <3>1. Fits(helper[h]) /\ helper[h].pc = "acquire"
      BY <1>7 DEF Acquires, Advances, Control, Fitting
    <3>2. /\ helper'[h].command = helper[h].command
          /\ helper'[h].pc = IF helper[h].command.verb = "uninstall" THEN "resolve" ELSE "create"
          /\ helper'[h].holds = IF helper[h].command.verb = "uninstall" THEN "exclusive" ELSE "shared"
      BY <1>7 DEF Acquires, Advances, SameCommand
    <3> QED
      BY <3>1, <3>2 DEF Fits, WriteSteps, LockedSteps
  <2>2. \A o \in Helpers \ {h} : Fits(helper'[o])
    BY <1>7, BystanderFits DEF Acquires, Control, Fitting, Moves, Advances, AdvancesOnly
  <2> QED
    BY <2>1, <2>2 DEF Fitting
<1>8. ASSUME NEW h \in Helpers, Reads(h) PROVE Fitting'
  <2>1. Fits(helper'[h])
    BY <1>8 DEF Reads, Control, Fitting, Fits, Moves, Local, WriteSteps, LockedSteps, SameCommand, SameGate,
       SameWrite, SameTalk, Clear, Ends, Advances, AdvancesOnly
  <2>2. \A o \in Helpers \ {h} : Fits(helper'[o])
    BY <1>8, BystanderFits DEF Reads, Control, Fitting, Moves, Advances, AdvancesOnly
  <2> QED
    BY <2>1, <2>2 DEF Fitting
<1>9. ASSUME NEW h \in Helpers, Writes(h) PROVE Fitting'
  <2>1. Fits(helper'[h])
    <3>1. /\ helper[h].pc \in WriteSteps /\ helper'[h].pc \in WriteSteps
          /\ SameCommand(helper[h], helper'[h]) /\ SameGate(helper[h], helper'[h])
      BY <1>9 DEF Writes, Advances, WriteSteps
    <3> QED
      BY <3>1 DEF Control, Fitting, Fits, WriteSteps, LockedSteps, SameCommand, SameGate
  <2>2. \A o \in Helpers \ {h} : Fits(helper'[o])
    BY <1>9, BystanderFits DEF Writes, Control, Fitting, Moves, Advances, AdvancesOnly
  <2> QED
    BY <2>1, <2>2 DEF Fitting
<1>10. ASSUME NEW h \in Helpers, Renames(h) PROVE Fitting'
  <2>1. Fits(helper'[h])
    BY <1>10 DEF Renames, Control, Fitting, Fits, Moves, Local, WriteSteps, LockedSteps, SameCommand, SameGate,
       SameWrite, SameTalk, Clear, Ends, Advances, AdvancesOnly
  <2>2. \A o \in Helpers \ {h} : Fits(helper'[o])
    BY <1>10, BystanderFits DEF Renames, Control, Fitting, Moves, Advances, AdvancesOnly
  <2> QED
    BY <2>1, <2>2 DEF Fitting
<1>11. ASSUME NEW h \in Helpers, Saves(h) PROVE Fitting'
  <2>1. Fits(helper'[h])
    BY <1>11 DEF Saves, Control, Fitting, Fits, Moves, Local, WriteSteps, LockedSteps, SameCommand, SameGate,
       SameWrite, SameTalk, Clear, Ends, Advances, AdvancesOnly
  <2>2. \A o \in Helpers \ {h} : Fits(helper'[o])
    BY <1>11, BystanderFits DEF Saves, Control, Fitting, Moves, Advances, AdvancesOnly
  <2> QED
    BY <2>1, <2>2 DEF Fitting
<1>12. ASSUME NEW h \in Helpers, Goes(h) PROVE Fitting'
  <2>1. Fits(helper'[h])
    <3>1. /\ helper[h].pc \in LockedSteps /\ helper'[h].pc \in LockedSteps
          /\ SameCommand(helper[h], helper'[h]) /\ SameGate(helper[h], helper'[h])
      BY <1>12 DEF Goes, Advances, AdvancesOnly, LockedSteps
    <3> QED
      BY <3>1 DEF Control, Fitting, Fits, WriteSteps, LockedSteps, SameCommand, SameGate
  <2>2. \A o \in Helpers \ {h} : Fits(helper'[o])
    BY <1>12, BystanderFits DEF Goes, Control, Fitting, Moves, Advances, AdvancesOnly
  <2> QED
    BY <2>1, <2>2 DEF Fitting
<1>13. ASSUME NEW h \in Helpers, Confirms(h) PROVE Fitting'
  <2>1. Fits(helper'[h])
    BY <1>13 DEF Confirms, Control, Fitting, Fits, Moves, Local, WriteSteps, LockedSteps, SameCommand, SameGate,
       SameWrite, SameTalk, Clear, Ends, Advances, AdvancesOnly
  <2>2. \A o \in Helpers \ {h} : Fits(helper'[o])
    BY <1>13, BystanderFits DEF Confirms, Control, Fitting, Moves, Advances, AdvancesOnly
  <2> QED
    BY <2>1, <2>2 DEF Fitting
<1>14. ASSUME NEW h \in Helpers, Purges(h) PROVE Fitting'
  <2>1. Fits(helper'[h])
    BY <1>14 DEF Purges, Control, Fitting, Fits, Moves, Local, WriteSteps, LockedSteps, SameCommand, SameGate,
       SameWrite, SameTalk, Clear, Ends, Advances, AdvancesOnly
  <2>2. \A o \in Helpers \ {h} : Fits(helper'[o])
    BY <1>14, BystanderFits DEF Purges, Control, Fitting, Moves, Advances, AdvancesOnly
  <2> QED
    BY <2>1, <2>2 DEF Fitting
<1>15. ASSUME NEW h \in Helpers, Releases(h) PROVE Fitting'
  <2>1. Fits(helper'[h])
    BY <1>15 DEF Releases, Control, Fitting, Fits, Moves, Local, WriteSteps, LockedSteps, SameCommand, SameGate,
       SameWrite, SameTalk, Clear, Ends, Advances, AdvancesOnly
  <2>2. \A o \in Helpers \ {h} : Fits(helper'[o])
    BY <1>15, BystanderFits DEF Releases, Control, Fitting, Moves, Advances, AdvancesOnly
  <2> QED
    BY <2>1, <2>2 DEF Fitting
<1>16. ASSUME NEW h \in Helpers, Unlinks(h) PROVE Fitting'
  <2>1. Fits(helper'[h])
    <3>1. Fits(helper[h]) /\ helper[h].pc = "purgeState"
      BY <1>16 DEF Unlinks, Advances, AdvancesOnly, Control, Fitting
    <3>2. helper[h].command.verb = "uninstall" /\ helper[h].holds = "nothing"
      BY <3>1 DEF Fits, WriteSteps, LockedSteps
    <3>3. CASE helper'[h].pc = "delegate" /\ AdvancesOnly(h, "purgeState", "delegate")
      BY <3>2, <3>3 DEF AdvancesOnly, Advances, Fits, WriteSteps, LockedSteps, SameCommand, SameGate
    <3>4. CASE Ends(h, 5)
      BY <3>4 DEF Ends, Clear, Fits, WriteSteps, LockedSteps
    <3> QED
      BY <1>16, <3>3, <3>4 DEF Unlinks, AdvancesOnly, Advances
  <2>2. \A o \in Helpers \ {h} : Fits(helper'[o])
    BY <1>16, BystanderFits DEF Unlinks, Control, Fitting, Moves, Advances, AdvancesOnly
  <2> QED
    BY <2>1, <2>2 DEF Fitting
<1>17. CASE PowerLoss
  BY <1>17, LostControl, FreshFits DEF Fitting
<1>18. CASE UNCHANGED vars
  BY <1>18 DEF vars, Control, Fitting
<1>19. LocalPastGate
  BY DEF Control, Fitting, Fits, LocalPastGate
<1> QED
  BY StepCases, <1>1, <1>2, <1>3, <1>4, <1>5, <1>6, <1>7, <1>8, <1>9, <1>10, <1>11, <1>12, <1>13, <1>14, <1>15,
     <1>16, <1>17, <1>18, <1>19 DEF Control

LEMMA NextBound == Control /\ [Next]_vars => Bound'
<1> SUFFICES ASSUME Control, [Next]_vars PROVE Bound'
  OBVIOUS
<1>1. ASSUME NEW h \in Helpers, Launches(h) PROVE Bound'
  <2>1. lockFile' \in Nat /\ inodes' \in Nat /\ lockFile' <= inodes' /\ inodes <= inodes'
    <3>1. lockFile' = lockFile /\ inodes' = inodes
      BY <1>1 DEF Launches, Still, gateVars
    <3> QED
      BY <3>1 DEF Control, Bound
  <2>2. helper'[h].pc \in {"acquire"} \cup WriteSteps \cup LockedSteps => helper'[h].inode \in 1..inodes'
    BY <1>1, <2>1 DEF Launches, Control, Bound, Still, gateVars, WriteSteps, LockedSteps, SameCommand, SameGate,
       SameWrite, SameTalk, Clear, Ends, Advances, AdvancesOnly
  <2>3. \A o \in Helpers \ {h} : helper'[o].pc = helper[o].pc /\ helper'[o].inode = helper[o].inode
    BY <1>1 DEF Launches, Moves, Advances, AdvancesOnly, Bystander, SameGate
  <2> QED
    BY <2>1, <2>2, <2>3 DEF Control, Bound
<1>2. ASSUME NEW h \in Helpers, Vanishes(h) PROVE Bound'
  <2>1. lockFile' \in Nat /\ inodes' \in Nat /\ lockFile' <= inodes' /\ inodes <= inodes'
    BY <1>2 DEF Vanishes, Control, Bound, Still, gateVars
  <2>2. helper'[h].pc \in {"acquire"} \cup WriteSteps \cup LockedSteps => helper'[h].inode \in 1..inodes'
    BY <1>2, <2>1 DEF Vanishes, Control, Bound, Still, gateVars, WriteSteps, LockedSteps, SameCommand, SameGate,
       SameWrite, SameTalk, Clear, Ends, Advances, AdvancesOnly
  <2>3. \A o \in Helpers \ {h} : helper'[o].pc = helper[o].pc /\ helper'[o].inode = helper[o].inode
    BY <1>2 DEF Vanishes, Moves, Advances, AdvancesOnly, Bystander, SameGate
  <2> QED
    BY <2>1, <2>2, <2>3 DEF Control, Bound
<1>3. ASSUME NEW h \in Helpers, Leaves(h) PROVE Bound'
  <2>1. lockFile' \in Nat /\ inodes' \in Nat /\ lockFile' <= inodes' /\ inodes <= inodes'
    BY <1>3 DEF Leaves, Control, Bound, Still, gateVars
  <2>2. helper'[h].pc \in {"acquire"} \cup WriteSteps \cup LockedSteps => helper'[h].inode \in 1..inodes'
    BY <1>3, <2>1 DEF Leaves, Control, Bound, Still, gateVars, WriteSteps, LockedSteps, SameCommand, SameGate,
       SameWrite, SameTalk, Clear, Ends, Advances, AdvancesOnly
  <2>3. \A o \in Helpers \ {h} : helper'[o].pc = helper[o].pc /\ helper'[o].inode = helper[o].inode
    BY <1>3 DEF Leaves, Moves, Advances, AdvancesOnly, Bystander, SameGate
  <2> QED
    BY <2>1, <2>2, <2>3 DEF Control, Bound
<1>4. ASSUME NEW h \in Helpers, Checks(h) PROVE Bound'
  <2>1. lockFile' \in Nat /\ inodes' \in Nat /\ lockFile' <= inodes' /\ inodes <= inodes'
    BY <1>4 DEF Checks, Control, Bound, Still, gateVars
  <2>2. helper'[h].pc \in {"acquire"} \cup WriteSteps \cup LockedSteps => helper'[h].inode \in 1..inodes'
    BY <1>4, <2>1 DEF Checks, Control, Bound, Still, gateVars, WriteSteps, LockedSteps, SameCommand, SameGate,
       SameWrite, SameTalk, Clear, Ends, Advances, AdvancesOnly
  <2>3. \A o \in Helpers \ {h} : helper'[o].pc = helper[o].pc /\ helper'[o].inode = helper[o].inode
    BY <1>4 DEF Checks, Moves, Advances, AdvancesOnly, Bystander, SameGate
  <2> QED
    BY <2>1, <2>2, <2>3 DEF Control, Bound
<1>5. ASSUME NEW h \in Helpers, Opens(h) PROVE Bound'
  <2>1. lockFile' \in Nat /\ inodes' \in Nat /\ lockFile' <= inodes' /\ inodes <= inodes'
    <3>1. /\ lockFile' = IF lockFile = 0 THEN inodes + 1 ELSE lockFile
          /\ inodes' = IF lockFile = 0 THEN inodes + 1 ELSE inodes
      BY <1>5 DEF Opens
    <3> QED
      BY <3>1 DEF Control, Bound
  <2>2. helper'[h].pc \in {"acquire"} \cup WriteSteps \cup LockedSteps => helper'[h].inode \in 1..inodes'
    BY <1>5, <2>1 DEF Opens, Control, Bound, Still, gateVars, WriteSteps, LockedSteps, SameCommand, SameGate,
       SameWrite, SameTalk, Clear, Ends, Advances, AdvancesOnly
  <2>3. \A o \in Helpers \ {h} : helper'[o].pc = helper[o].pc /\ helper'[o].inode = helper[o].inode
    BY <1>5 DEF Opens, Moves, Advances, AdvancesOnly, Bystander, SameGate
  <2> QED
    BY <2>1, <2>2, <2>3 DEF Control, Bound
<1>6. ASSUME NEW h \in Helpers, Binds(h) PROVE Bound'
  <2>1. lockFile' \in Nat /\ inodes' \in Nat /\ lockFile' <= inodes' /\ inodes <= inodes'
    BY <1>6 DEF Binds, Control, Bound, Still, gateVars
  <2>2. helper'[h].pc \in {"acquire"} \cup WriteSteps \cup LockedSteps => helper'[h].inode \in 1..inodes'
    BY <1>6, <2>1 DEF Binds, Control, Bound, Still, gateVars, WriteSteps, LockedSteps, SameCommand, SameGate,
       SameWrite, SameTalk, Clear, Ends, Advances, AdvancesOnly
  <2>3. \A o \in Helpers \ {h} : helper'[o].pc = helper[o].pc /\ helper'[o].inode = helper[o].inode
    BY <1>6 DEF Binds, Moves, Advances, AdvancesOnly, Bystander, SameGate
  <2> QED
    BY <2>1, <2>2, <2>3 DEF Control, Bound
<1>7. ASSUME NEW h \in Helpers, Acquires(h) PROVE Bound'
  <2>1. lockFile' \in Nat /\ inodes' \in Nat /\ lockFile' <= inodes' /\ inodes <= inodes'
    BY <1>7 DEF Acquires, Control, Bound, Still, gateVars
  <2>2. helper'[h].pc \in {"acquire"} \cup WriteSteps \cup LockedSteps => helper'[h].inode \in 1..inodes'
    BY <1>7, <2>1 DEF Acquires, Control, Bound, Still, gateVars, WriteSteps, LockedSteps, SameCommand, SameGate,
       SameWrite, SameTalk, Clear, Ends, Advances, AdvancesOnly
  <2>3. \A o \in Helpers \ {h} : helper'[o].pc = helper[o].pc /\ helper'[o].inode = helper[o].inode
    BY <1>7 DEF Acquires, Moves, Advances, AdvancesOnly, Bystander, SameGate
  <2> QED
    BY <2>1, <2>2, <2>3 DEF Control, Bound
<1>8. ASSUME NEW h \in Helpers, Reads(h) PROVE Bound'
  <2>1. lockFile' \in Nat /\ inodes' \in Nat /\ lockFile' <= inodes' /\ inodes <= inodes'
    BY <1>8 DEF Reads, Control, Bound, Still, gateVars
  <2>2. helper'[h].pc \in {"acquire"} \cup WriteSteps \cup LockedSteps => helper'[h].inode \in 1..inodes'
    BY <1>8, <2>1 DEF Reads, Control, Bound, Still, gateVars, WriteSteps, LockedSteps, SameCommand, SameGate,
       SameWrite, SameTalk, Clear, Ends, Advances, AdvancesOnly
  <2>3. \A o \in Helpers \ {h} : helper'[o].pc = helper[o].pc /\ helper'[o].inode = helper[o].inode
    BY <1>8 DEF Reads, Moves, Advances, AdvancesOnly, Bystander, SameGate
  <2> QED
    BY <2>1, <2>2, <2>3 DEF Control, Bound
<1>9. ASSUME NEW h \in Helpers, Writes(h) PROVE Bound'
  <2>1. lockFile' \in Nat /\ inodes' \in Nat /\ lockFile' <= inodes' /\ inodes <= inodes'
    BY <1>9 DEF Writes, Control, Bound, Still, gateVars
  <2>2. helper'[h].pc \in {"acquire"} \cup WriteSteps \cup LockedSteps => helper'[h].inode \in 1..inodes'
    BY <1>9, <2>1 DEF Writes, Control, Bound, Still, gateVars, WriteSteps, LockedSteps, SameCommand, SameGate,
       SameWrite, SameTalk, Clear, Ends, Advances, AdvancesOnly
  <2>3. \A o \in Helpers \ {h} : helper'[o].pc = helper[o].pc /\ helper'[o].inode = helper[o].inode
    BY <1>9 DEF Writes, Moves, Advances, AdvancesOnly, Bystander, SameGate
  <2> QED
    BY <2>1, <2>2, <2>3 DEF Control, Bound
<1>10. ASSUME NEW h \in Helpers, Renames(h) PROVE Bound'
  <2>1. lockFile' \in Nat /\ inodes' \in Nat /\ lockFile' <= inodes' /\ inodes <= inodes'
    BY <1>10 DEF Renames, Control, Bound, Still, gateVars
  <2>2. helper'[h].pc \in {"acquire"} \cup WriteSteps \cup LockedSteps => helper'[h].inode \in 1..inodes'
    BY <1>10, <2>1 DEF Renames, Control, Bound, Still, gateVars, WriteSteps, LockedSteps, SameCommand, SameGate,
       SameWrite, SameTalk, Clear, Ends, Advances, AdvancesOnly
  <2>3. \A o \in Helpers \ {h} : helper'[o].pc = helper[o].pc /\ helper'[o].inode = helper[o].inode
    BY <1>10 DEF Renames, Moves, Advances, AdvancesOnly, Bystander, SameGate
  <2> QED
    BY <2>1, <2>2, <2>3 DEF Control, Bound
<1>11. ASSUME NEW h \in Helpers, Saves(h) PROVE Bound'
  <2>1. lockFile' \in Nat /\ inodes' \in Nat /\ lockFile' <= inodes' /\ inodes <= inodes'
    BY <1>11 DEF Saves, Control, Bound, Still, gateVars
  <2>2. helper'[h].pc \in {"acquire"} \cup WriteSteps \cup LockedSteps => helper'[h].inode \in 1..inodes'
    BY <1>11, <2>1 DEF Saves, Control, Bound, Still, gateVars, WriteSteps, LockedSteps, SameCommand, SameGate,
       SameWrite, SameTalk, Clear, Ends, Advances, AdvancesOnly
  <2>3. \A o \in Helpers \ {h} : helper'[o].pc = helper[o].pc /\ helper'[o].inode = helper[o].inode
    BY <1>11 DEF Saves, Moves, Advances, AdvancesOnly, Bystander, SameGate
  <2> QED
    BY <2>1, <2>2, <2>3 DEF Control, Bound
<1>12. ASSUME NEW h \in Helpers, Goes(h) PROVE Bound'
  <2>1. lockFile' \in Nat /\ inodes' \in Nat /\ lockFile' <= inodes' /\ inodes <= inodes'
    BY <1>12 DEF Goes, Control, Bound, Still, gateVars
  <2>2. helper'[h].pc \in {"acquire"} \cup WriteSteps \cup LockedSteps => helper'[h].inode \in 1..inodes'
    BY <1>12, <2>1 DEF Goes, Control, Bound, Still, gateVars, WriteSteps, LockedSteps, SameCommand, SameGate,
       SameWrite, SameTalk, Clear, Ends, Advances, AdvancesOnly
  <2>3. \A o \in Helpers \ {h} : helper'[o].pc = helper[o].pc /\ helper'[o].inode = helper[o].inode
    BY <1>12 DEF Goes, Moves, Advances, AdvancesOnly, Bystander, SameGate
  <2> QED
    BY <2>1, <2>2, <2>3 DEF Control, Bound
<1>13. ASSUME NEW h \in Helpers, Confirms(h) PROVE Bound'
  <2>1. lockFile' \in Nat /\ inodes' \in Nat /\ lockFile' <= inodes' /\ inodes <= inodes'
    BY <1>13 DEF Confirms, Control, Bound, Still, gateVars
  <2>2. helper'[h].pc \in {"acquire"} \cup WriteSteps \cup LockedSteps => helper'[h].inode \in 1..inodes'
    BY <1>13, <2>1 DEF Confirms, Control, Bound, Still, gateVars, WriteSteps, LockedSteps, SameCommand,
       SameGate, SameWrite, SameTalk, Clear, Ends, Advances, AdvancesOnly
  <2>3. \A o \in Helpers \ {h} : helper'[o].pc = helper[o].pc /\ helper'[o].inode = helper[o].inode
    BY <1>13 DEF Confirms, Moves, Advances, AdvancesOnly, Bystander, SameGate
  <2> QED
    BY <2>1, <2>2, <2>3 DEF Control, Bound
<1>14. ASSUME NEW h \in Helpers, Purges(h) PROVE Bound'
  <2>1. lockFile' \in Nat /\ inodes' \in Nat /\ lockFile' <= inodes' /\ inodes <= inodes'
    BY <1>14 DEF Purges, Control, Bound, Still, gateVars
  <2>2. helper'[h].pc \in {"acquire"} \cup WriteSteps \cup LockedSteps => helper'[h].inode \in 1..inodes'
    BY <1>14, <2>1 DEF Purges, Control, Bound, Still, gateVars, WriteSteps, LockedSteps, SameCommand, SameGate,
       SameWrite, SameTalk, Clear, Ends, Advances, AdvancesOnly
  <2>3. \A o \in Helpers \ {h} : helper'[o].pc = helper[o].pc /\ helper'[o].inode = helper[o].inode
    BY <1>14 DEF Purges, Moves, Advances, AdvancesOnly, Bystander, SameGate
  <2> QED
    BY <2>1, <2>2, <2>3 DEF Control, Bound
<1>15. ASSUME NEW h \in Helpers, Releases(h) PROVE Bound'
  <2>1. lockFile' \in Nat /\ inodes' \in Nat /\ lockFile' <= inodes' /\ inodes <= inodes'
    BY <1>15 DEF Releases, Control, Bound, Still, gateVars
  <2>2. helper'[h].pc \in {"acquire"} \cup WriteSteps \cup LockedSteps => helper'[h].inode \in 1..inodes'
    BY <1>15, <2>1 DEF Releases, Control, Bound, Still, gateVars, WriteSteps, LockedSteps, SameCommand,
       SameGate, SameWrite, SameTalk, Clear, Ends, Advances, AdvancesOnly
  <2>3. \A o \in Helpers \ {h} : helper'[o].pc = helper[o].pc /\ helper'[o].inode = helper[o].inode
    BY <1>15 DEF Releases, Moves, Advances, AdvancesOnly, Bystander, SameGate
  <2> QED
    BY <2>1, <2>2, <2>3 DEF Control, Bound
<1>16. ASSUME NEW h \in Helpers, Unlinks(h) PROVE Bound'
  <2>1. lockFile' \in Nat /\ inodes' \in Nat /\ lockFile' <= inodes' /\ inodes <= inodes'
    BY <1>16 DEF Unlinks, Control, Bound, Still, gateVars
  <2>2. helper'[h].pc \in {"acquire"} \cup WriteSteps \cup LockedSteps => helper'[h].inode \in 1..inodes'
    BY <1>16, <2>1 DEF Unlinks, Control, Bound, Still, gateVars, WriteSteps, LockedSteps, SameCommand, SameGate,
       SameWrite, SameTalk, Clear, Ends, Advances, AdvancesOnly
  <2>3. \A o \in Helpers \ {h} : helper'[o].pc = helper[o].pc /\ helper'[o].inode = helper[o].inode
    BY <1>16 DEF Unlinks, Moves, Advances, AdvancesOnly, Bystander, SameGate
  <2> QED
    BY <2>1, <2>2, <2>3 DEF Control, Bound
<1>17. CASE PowerLoss
  BY <1>17, LostControl, FreshFits DEF PowerLoss, gateVars, Control, Bound, WriteSteps, LockedSteps
<1>18. CASE UNCHANGED vars
  BY <1>18 DEF vars, Control, Bound
<1>19. LocalPastGate
  BY DEF Control, Fitting, Fits, LocalPastGate
<1> QED
  BY StepCases, <1>1, <1>2, <1>3, <1>4, <1>5, <1>6, <1>7, <1>8, <1>9, <1>10, <1>11, <1>12, <1>13, <1>14, <1>15,
     <1>16, <1>17, <1>18, <1>19 DEF Control

LEMMA NextExcluded == Control /\ [Next]_vars => Excluded'
<1> SUFFICES ASSUME Control, [Next]_vars PROVE Excluded'
  OBVIOUS
<1>1. ASSUME NEW h \in Helpers, Launches(h) PROVE Excluded'
  <2>1. \/ helper'[h].holds = "nothing"
        \/ helper'[h].inode = helper[h].inode /\ helper'[h].holds = helper[h].holds
    BY <1>1 DEF Launches, Control, Fitting, Fits, WriteSteps, LockedSteps, SameCommand, SameGate, SameWrite,
       SameTalk, Clear, Ends, Advances, AdvancesOnly
  <2>2. \A o \in Helpers \ {h} : helper'[o].holds = helper[o].holds /\ helper'[o].inode = helper[o].inode
    BY <1>1 DEF Launches, Moves, Advances, AdvancesOnly, Bystander, SameGate
  <2> QED
    BY <2>1, <2>2 DEF Control, Excluded
<1>2. ASSUME NEW h \in Helpers, Vanishes(h) PROVE Excluded'
  <2>1. \/ helper'[h].holds = "nothing"
        \/ helper'[h].inode = helper[h].inode /\ helper'[h].holds = helper[h].holds
    BY <1>2 DEF Vanishes, Control, Fitting, Fits, WriteSteps, LockedSteps, SameCommand, SameGate, SameWrite,
       SameTalk, Clear, Ends, Advances, AdvancesOnly
  <2>2. \A o \in Helpers \ {h} : helper'[o].holds = helper[o].holds /\ helper'[o].inode = helper[o].inode
    BY <1>2 DEF Vanishes, Moves, Advances, AdvancesOnly, Bystander, SameGate
  <2> QED
    BY <2>1, <2>2 DEF Control, Excluded
<1>3. ASSUME NEW h \in Helpers, Leaves(h) PROVE Excluded'
  <2>1. \/ helper'[h].holds = "nothing"
        \/ helper'[h].inode = helper[h].inode /\ helper'[h].holds = helper[h].holds
    BY <1>3 DEF Leaves, Control, Fitting, Fits, WriteSteps, LockedSteps, SameCommand, SameGate, SameWrite,
       SameTalk, Clear, Ends, Advances, AdvancesOnly
  <2>2. \A o \in Helpers \ {h} : helper'[o].holds = helper[o].holds /\ helper'[o].inode = helper[o].inode
    BY <1>3 DEF Leaves, Moves, Advances, AdvancesOnly, Bystander, SameGate
  <2> QED
    BY <2>1, <2>2 DEF Control, Excluded
<1>4. ASSUME NEW h \in Helpers, Checks(h) PROVE Excluded'
  <2>1. \/ helper'[h].holds = "nothing"
        \/ helper'[h].inode = helper[h].inode /\ helper'[h].holds = helper[h].holds
    BY <1>4 DEF Checks, Control, Fitting, Fits, WriteSteps, LockedSteps, SameCommand, SameGate, SameWrite,
       SameTalk, Clear, Ends, Advances, AdvancesOnly
  <2>2. \A o \in Helpers \ {h} : helper'[o].holds = helper[o].holds /\ helper'[o].inode = helper[o].inode
    BY <1>4 DEF Checks, Moves, Advances, AdvancesOnly, Bystander, SameGate
  <2> QED
    BY <2>1, <2>2 DEF Control, Excluded
<1>5. ASSUME NEW h \in Helpers, Opens(h) PROVE Excluded'
  <2>1. \/ helper'[h].holds = "nothing"
        \/ helper'[h].inode = helper[h].inode /\ helper'[h].holds = helper[h].holds
    BY <1>5 DEF Opens, Control, Fitting, Fits, WriteSteps, LockedSteps, SameCommand, SameGate, SameWrite,
       SameTalk, Clear, Ends, Advances, AdvancesOnly
  <2>2. \A o \in Helpers \ {h} : helper'[o].holds = helper[o].holds /\ helper'[o].inode = helper[o].inode
    BY <1>5 DEF Opens, Moves, Advances, AdvancesOnly, Bystander, SameGate
  <2> QED
    BY <2>1, <2>2 DEF Control, Excluded
<1>6. ASSUME NEW h \in Helpers, Binds(h) PROVE Excluded'
  <2>1. \/ helper'[h].holds = "nothing"
        \/ helper'[h].inode = helper[h].inode /\ helper'[h].holds = helper[h].holds
    BY <1>6 DEF Binds, Control, Fitting, Fits, WriteSteps, LockedSteps, SameCommand, SameGate, SameWrite,
       SameTalk, Clear, Ends, Advances, AdvancesOnly
  <2>2. \A o \in Helpers \ {h} : helper'[o].holds = helper[o].holds /\ helper'[o].inode = helper[o].inode
    BY <1>6 DEF Binds, Moves, Advances, AdvancesOnly, Bystander, SameGate
  <2> QED
    BY <2>1, <2>2 DEF Control, Excluded
<1>7. ASSUME NEW h \in Helpers, Acquires(h) PROVE Excluded'
  <2>1. /\ helper'[h].inode = helper[h].inode
        /\ helper'[h].holds = IF helper[h].command.verb = "uninstall" THEN "exclusive" ELSE "shared"
        /\ \A o \in Helpers \ {h} :
             helper[o].inode = helper[h].inode =>
               \/ helper[o].holds = "nothing"
               \/ helper[o].holds = "shared" /\ helper[h].command.verb # "uninstall"
    BY <1>7 DEF Acquires
  <2>2. \A o \in Helpers \ {h} : helper'[o].holds = helper[o].holds /\ helper'[o].inode = helper[o].inode
    BY <1>7 DEF Acquires, Moves, Advances, Bystander, SameGate
  <2> QED
    BY <2>1, <2>2 DEF Control, Excluded
<1>8. ASSUME NEW h \in Helpers, Reads(h) PROVE Excluded'
  <2>1. \/ helper'[h].holds = "nothing"
        \/ helper'[h].inode = helper[h].inode /\ helper'[h].holds = helper[h].holds
    BY <1>8 DEF Reads, Control, Fitting, Fits, WriteSteps, LockedSteps, SameCommand, SameGate, SameWrite,
       SameTalk, Clear, Ends, Advances, AdvancesOnly
  <2>2. \A o \in Helpers \ {h} : helper'[o].holds = helper[o].holds /\ helper'[o].inode = helper[o].inode
    BY <1>8 DEF Reads, Moves, Advances, AdvancesOnly, Bystander, SameGate
  <2> QED
    BY <2>1, <2>2 DEF Control, Excluded
<1>9. ASSUME NEW h \in Helpers, Writes(h) PROVE Excluded'
  <2>1. \/ helper'[h].holds = "nothing"
        \/ helper'[h].inode = helper[h].inode /\ helper'[h].holds = helper[h].holds
    BY <1>9 DEF Writes, Control, Fitting, Fits, WriteSteps, LockedSteps, SameCommand, SameGate, SameWrite,
       SameTalk, Clear, Ends, Advances, AdvancesOnly
  <2>2. \A o \in Helpers \ {h} : helper'[o].holds = helper[o].holds /\ helper'[o].inode = helper[o].inode
    BY <1>9 DEF Writes, Moves, Advances, AdvancesOnly, Bystander, SameGate
  <2> QED
    BY <2>1, <2>2 DEF Control, Excluded
<1>10. ASSUME NEW h \in Helpers, Renames(h) PROVE Excluded'
  <2>1. \/ helper'[h].holds = "nothing"
        \/ helper'[h].inode = helper[h].inode /\ helper'[h].holds = helper[h].holds
    BY <1>10 DEF Renames, Control, Fitting, Fits, WriteSteps, LockedSteps, SameCommand, SameGate, SameWrite,
       SameTalk, Clear, Ends, Advances, AdvancesOnly
  <2>2. \A o \in Helpers \ {h} : helper'[o].holds = helper[o].holds /\ helper'[o].inode = helper[o].inode
    BY <1>10 DEF Renames, Moves, Advances, AdvancesOnly, Bystander, SameGate
  <2> QED
    BY <2>1, <2>2 DEF Control, Excluded
<1>11. ASSUME NEW h \in Helpers, Saves(h) PROVE Excluded'
  <2>1. \/ helper'[h].holds = "nothing"
        \/ helper'[h].inode = helper[h].inode /\ helper'[h].holds = helper[h].holds
    BY <1>11 DEF Saves, Control, Fitting, Fits, WriteSteps, LockedSteps, SameCommand, SameGate, SameWrite,
       SameTalk, Clear, Ends, Advances, AdvancesOnly
  <2>2. \A o \in Helpers \ {h} : helper'[o].holds = helper[o].holds /\ helper'[o].inode = helper[o].inode
    BY <1>11 DEF Saves, Moves, Advances, AdvancesOnly, Bystander, SameGate
  <2> QED
    BY <2>1, <2>2 DEF Control, Excluded
<1>12. ASSUME NEW h \in Helpers, Goes(h) PROVE Excluded'
  <2>1. \/ helper'[h].holds = "nothing"
        \/ helper'[h].inode = helper[h].inode /\ helper'[h].holds = helper[h].holds
    BY <1>12 DEF Goes, Control, Fitting, Fits, WriteSteps, LockedSteps, SameCommand, SameGate, SameWrite,
       SameTalk, Clear, Ends, Advances, AdvancesOnly
  <2>2. \A o \in Helpers \ {h} : helper'[o].holds = helper[o].holds /\ helper'[o].inode = helper[o].inode
    BY <1>12 DEF Goes, Moves, Advances, AdvancesOnly, Bystander, SameGate
  <2> QED
    BY <2>1, <2>2 DEF Control, Excluded
<1>13. ASSUME NEW h \in Helpers, Confirms(h) PROVE Excluded'
  <2>1. \/ helper'[h].holds = "nothing"
        \/ helper'[h].inode = helper[h].inode /\ helper'[h].holds = helper[h].holds
    BY <1>13 DEF Confirms, Control, Fitting, Fits, WriteSteps, LockedSteps, SameCommand, SameGate, SameWrite,
       SameTalk, Clear, Ends, Advances, AdvancesOnly
  <2>2. \A o \in Helpers \ {h} : helper'[o].holds = helper[o].holds /\ helper'[o].inode = helper[o].inode
    BY <1>13 DEF Confirms, Moves, Advances, AdvancesOnly, Bystander, SameGate
  <2> QED
    BY <2>1, <2>2 DEF Control, Excluded
<1>14. ASSUME NEW h \in Helpers, Purges(h) PROVE Excluded'
  <2>1. \/ helper'[h].holds = "nothing"
        \/ helper'[h].inode = helper[h].inode /\ helper'[h].holds = helper[h].holds
    BY <1>14 DEF Purges, Control, Fitting, Fits, WriteSteps, LockedSteps, SameCommand, SameGate, SameWrite,
       SameTalk, Clear, Ends, Advances, AdvancesOnly
  <2>2. \A o \in Helpers \ {h} : helper'[o].holds = helper[o].holds /\ helper'[o].inode = helper[o].inode
    BY <1>14 DEF Purges, Moves, Advances, AdvancesOnly, Bystander, SameGate
  <2> QED
    BY <2>1, <2>2 DEF Control, Excluded
<1>15. ASSUME NEW h \in Helpers, Releases(h) PROVE Excluded'
  <2>1. \/ helper'[h].holds = "nothing"
        \/ helper'[h].inode = helper[h].inode /\ helper'[h].holds = helper[h].holds
    BY <1>15 DEF Releases, Control, Fitting, Fits, WriteSteps, LockedSteps, SameCommand, SameGate, SameWrite,
       SameTalk, Clear, Ends, Advances, AdvancesOnly
  <2>2. \A o \in Helpers \ {h} : helper'[o].holds = helper[o].holds /\ helper'[o].inode = helper[o].inode
    BY <1>15 DEF Releases, Moves, Advances, AdvancesOnly, Bystander, SameGate
  <2> QED
    BY <2>1, <2>2 DEF Control, Excluded
<1>16. ASSUME NEW h \in Helpers, Unlinks(h) PROVE Excluded'
  <2>1. \/ helper'[h].holds = "nothing"
        \/ helper'[h].inode = helper[h].inode /\ helper'[h].holds = helper[h].holds
    BY <1>16 DEF Unlinks, Control, Fitting, Fits, WriteSteps, LockedSteps, SameCommand, SameGate, SameWrite,
       SameTalk, Clear, Ends, Advances, AdvancesOnly
  <2>2. \A o \in Helpers \ {h} : helper'[o].holds = helper[o].holds /\ helper'[o].inode = helper[o].inode
    BY <1>16 DEF Unlinks, Moves, Advances, AdvancesOnly, Bystander, SameGate
  <2> QED
    BY <2>1, <2>2 DEF Control, Excluded
<1>17. CASE PowerLoss
  BY <1>17, LostControl, FreshFits DEF Clear, Excluded
<1>18. CASE UNCHANGED vars
  BY <1>18 DEF vars, Control, Excluded
<1>19. LocalPastGate
  BY DEF Control, Fitting, Fits, LocalPastGate
<1> QED
  BY StepCases, <1>1, <1>2, <1>3, <1>4, <1>5, <1>6, <1>7, <1>8, <1>9, <1>10, <1>11, <1>12, <1>13, <1>14, <1>15,
     <1>16, <1>17, <1>18, <1>19 DEF Control

LEMMA NextControl == Control /\ [Next]_vars => Control'
<1>1. ASSUME Processes, [Next]_vars, LocalPastGate PROVE Processes'
  <2>1. CASE \E h \in Helpers : Moves(h)
    BY <2>1 DEF Moves
  <2>2. CASE PowerLoss
    BY <2>2, LostControl, FreshFits DEF Processes
  <2>3. CASE UNCHANGED vars
    BY <1>1, <2>3 DEF Processes, vars
  <2>4. ASSUME NEW h \in Helpers,
               \/ Launches(h) \/ Vanishes(h) \/ Leaves(h) \/ Checks(h) \/ Opens(h) \/ Binds(h) \/ Acquires(h)
               \/ Reads(h) \/ Writes(h) \/ Renames(h) \/ Saves(h) \/ Goes(h) \/ Confirms(h) \/ Purges(h)
               \/ Releases(h) \/ Unlinks(h)
        PROVE  Moves(h)
    BY <2>4 DEF Launches, Vanishes, Leaves, Checks, Opens, Binds, Acquires, Reads, Writes, Renames, Saves, Goes,
       Confirms, Purges, Releases, Unlinks, Advances, AdvancesOnly, Ends
  <2> QED
    BY <1>1, <2>1, <2>2, <2>3, <2>4, StepCases
<1>2. Control => LocalPastGate
  BY DEF Control, Fitting, Fits, LocalPastGate
<1> QED
  BY <1>1, <1>2, NextFitting, NextBound, NextExcluded DEF Control

\* A process is where its command leads, with what that step has of the gate's;
\* and a lock file's holder is alone with it when it holds it exclusively
\* (MaintenanceGate, dispatch()), whichever processes start, end or are killed.
THEOREM HelperControl == Spec => []Control
<1> QED
  BY InitControl, NextControl, PTL DEF Spec

\* While the gate's first lock file is the only one there has been, no uninstall
\* removes the settings or the cache in the middle of a config apply's write, for
\* any number of processes (MaintenanceGate, dispatch_uninstall()).
THEOREM PurgesWaitForWritesHolds == Spec => []PurgesWaitForWrites
<1>1. ASSUME Control, inodes <= 1, NEW u \in Helpers, NEW w \in Helpers,
             helper[u].pc \in {"purgeSettings", "purgeCache"}, Writing(w)
      PROVE  FALSE
  <2>1. helper[w].pc \in WriteSteps /\ helper[u].pc \in LockedSteps
    BY <1>1, WritingSteps DEF WriteSteps, LockedSteps
  <2>2. helper[w].holds = "shared" /\ helper[u].holds = "exclusive"
    BY <1>1, <2>1 DEF Control, Fitting, Fits, WriteSteps, LockedSteps
  <2>3. helper[w].inode = 1 /\ helper[u].inode = 1
    BY <1>1, <2>1 DEF Control, Bound
  <2> QED
    BY <1>1, <2>2, <2>3 DEF Control, Excluded
<1>2. Control => PurgesWaitForWrites
  BY <1>1 DEF PurgesWaitForWrites
<1> QED
  BY <1>2, HelperControl, PTL

---------------------------------------------------------------------------
(* The settings file, and what a loss of power may leave of it.            *)

\* Every version that may be there is at least as late as the last one reported
\* as saved, and is whole.
Versions ==
  /\ ranks \in Nat /\ saved \in Nat
  /\ \A v \in onDisk \cup {file} : v.rank \in Nat /\ saved <= v.rank /\ v.rank <= ranks /\ ~v.torn

\* A temporary file that is renamed has been synced, unless an uninstall removed
\* it; and no process renamed a later version than the file is.
Writer(p) ==
  /\ p.pc \in {"write", "sync"} => p.temp \in {"empty", "none"}
  /\ p.pc \in {"mode", "rename"} => p.temp \in {"synced", "none"}
  /\ p.rank \in Nat

Writers == \A h \in Helpers : Writer(helper[h]) /\ helper[h].rank <= file.rank

Durable == Versions /\ Writers

LEMMA InitDurable == Init => Durable
<1> SUFFICES ASSUME Init PROVE Durable
  OBVIOUS
<1>1. \A h \in Helpers : helper[h] = Fresh
  BY DEF Init
<1>2. file.rank = 0 /\ ~file.torn /\ onDisk = {file} /\ ranks = 0 /\ saved = 0
  BY DEF Init
<1> HIDE DEF Init
<1> QED
  BY <1>1, <1>2, FreshFits DEF Durable, Versions, Writers, Writer, Clear

LEMMA NextVersions == Control /\ Durable /\ [Next]_vars => Versions'
<1> SUFFICES ASSUME Control, Durable, [Next]_vars PROVE Versions'
  OBVIOUS
<1>1. ASSUME UNCHANGED fileVars PROVE Versions'
  BY <1>1 DEF Durable, Versions, fileVars
<1>2. ASSUME NEW v, v.rank = ranks + 1, ~v.torn,
             file' = v, onDisk' = onDisk \cup {v}, ranks' = ranks + 1, saved' = saved
      PROVE  Versions'
  <2>1. ranks + 1 \in Nat /\ saved \in Nat /\ saved <= ranks + 1
    BY DEF Durable, Versions
  <2>2. \A w \in onDisk : w.rank \in Nat /\ saved <= w.rank /\ w.rank <= ranks + 1 /\ ~w.torn
    BY DEF Durable, Versions
  <2> QED
    BY <1>2, <2>1, <2>2 DEF Versions
<1>3. ASSUME NEW h \in Helpers, Renames(h) PROVE Versions'
  <2>1. helper[h].temp = "synced"
    BY <1>3 DEF Renames, Advances, Durable, Writers, Writer
  <2>2. PICK bytes :
          LET replaced == [bytes |-> bytes, rank |-> ranks + 1, torn |-> helper[h].temp # "synced"]
          IN  file' = replaced /\ onDisk' = onDisk \cup {replaced}
    BY <1>3 DEF Renames
  <2>3. ranks' = ranks + 1 /\ saved' = saved
    BY <1>3 DEF Renames
  <2> DEFINE v == [bytes |-> bytes, rank |-> ranks + 1, torn |-> helper[h].temp # "synced"]
  <2>4. v.rank = ranks + 1 /\ ~v.torn /\ file' = v /\ onDisk' = onDisk \cup {v}
    BY <2>1, <2>2
  <2> HIDE DEF v
  <2> QED
    BY <1>2, <2>3, <2>4
<1>4. ASSUME NEW h \in Helpers, Saves(h) PROVE Versions'
  <2>1. helper[h].rank \in Nat /\ helper[h].rank <= file.rank
    BY DEF Durable, Writers, Writer
  <2>2. /\ onDisk' = {file} /\ file' = file /\ ranks' = ranks
        /\ saved' = IF helper[h].rank > saved THEN helper[h].rank ELSE saved
    BY <1>4 DEF Saves
  <2>3. saved' \in Nat /\ saved' <= file.rank
    BY <2>1, <2>2 DEF Durable, Versions
  <2> QED
    BY <2>2, <2>3 DEF Durable, Versions
<1>5. ASSUME NEW h \in Helpers, Purges(h) PROVE Versions'
  <2> DEFINE v == [bytes |-> NoFile, rank |-> ranks + 1, torn |-> FALSE]
  <2>1. v.rank = ranks + 1 /\ ~v.torn
    OBVIOUS
  <2>2. file' = v /\ onDisk' = onDisk \cup {v} /\ ranks' = ranks + 1 /\ saved' = saved
    BY <1>5 DEF Purges
  <2> HIDE DEF v
  <2> QED
    BY <1>2, <2>1, <2>2
<1>6. CASE PowerLoss
  BY <1>6 DEF PowerLoss, Durable, Versions
<1>7. LocalPastGate
  BY DEF Control, Fitting, Fits, LocalPastGate
<1>8. ASSUME NEW h \in Helpers,
             \/ Launches(h) \/ Vanishes(h) \/ Leaves(h) \/ Checks(h) \/ Opens(h) \/ Binds(h) \/ Acquires(h)
             \/ Reads(h) \/ Writes(h) \/ Goes(h) \/ Confirms(h) \/ Releases(h) \/ Unlinks(h)
      PROVE  UNCHANGED fileVars
  BY <1>8 DEF Launches, Vanishes, Leaves, Checks, Opens, Binds, Acquires, Reads, Writes, Goes, Confirms,
     Releases,
     Unlinks, Still
<1>9. UNCHANGED vars => UNCHANGED fileVars
  BY DEF vars, fileVars
<1> QED
  BY <1>1, <1>3, <1>4, <1>5, <1>6, <1>7, <1>8, <1>9, StepCases DEF Control

LEMMA BystanderWriter ==
  ASSUME NEW p, NEW q, Bystander(p, q), Writer(p)
  PROVE  Writer(q) /\ q.rank = p.rank
BY DEF Bystander, Writer

LEMMA NextWriters == Control /\ Durable /\ [Next]_vars => Writers'
<1> SUFFICES ASSUME Control, Durable, [Next]_vars PROVE Writers'
  OBVIOUS
<1>1. ASSUME NEW h \in Helpers, Launches(h) PROVE Writers'
  <2>1. Writer(helper'[h])
    <3>1. Clear(helper'[h]) /\ helper'[h].pc \in {"open", "check", "done"}
      BY <1>1 DEF Launches
    <3> QED
      BY <3>1 DEF Clear, Writer
  <2>2. file' = file /\ helper'[h].rank \in {helper[h].rank, 0}
    BY <1>1 DEF Launches, Still, fileVars, SameCommand, SameGate, SameWrite, SameTalk, Clear, Ends, Advances,
       AdvancesOnly
  <2>3. file.rank \in Nat /\ file'.rank \in Nat /\ file.rank <= file'.rank
    BY <2>2 DEF Durable, Versions
  <2>4. \A o \in Helpers \ {h} : Writer(helper'[o]) /\ helper'[o].rank = helper[o].rank
    BY <1>1, BystanderWriter DEF Launches, Durable, Writers, Moves, Advances, AdvancesOnly
  <2>5. \A o \in Helpers : helper[o].rank \in Nat /\ helper[o].rank <= file.rank
    BY DEF Durable, Writers, Writer
  <2> QED
    BY <2>1, <2>2, <2>3, <2>4, <2>5 DEF Writers
<1>2. ASSUME NEW h \in Helpers, Vanishes(h) PROVE Writers'
  <2>1. Writer(helper'[h])
    BY <1>2 DEF Vanishes, Durable, Versions, Writers, Writer, Local, SameCommand, SameGate, SameWrite, SameTalk,
       Clear, Ends, Advances, AdvancesOnly
  <2>2. file' = file /\ helper'[h].rank \in {helper[h].rank, 0}
    BY <1>2 DEF Vanishes, Still, fileVars, SameCommand, SameGate, SameWrite, SameTalk, Clear, Ends, Advances,
       AdvancesOnly
  <2>3. file.rank \in Nat /\ file'.rank \in Nat /\ file.rank <= file'.rank
    BY <2>2 DEF Durable, Versions
  <2>4. \A o \in Helpers \ {h} : Writer(helper'[o]) /\ helper'[o].rank = helper[o].rank
    BY <1>2, BystanderWriter DEF Vanishes, Durable, Writers, Moves, Advances, AdvancesOnly
  <2>5. \A o \in Helpers : helper[o].rank \in Nat /\ helper[o].rank <= file.rank
    BY DEF Durable, Writers, Writer
  <2> QED
    BY <2>1, <2>2, <2>3, <2>4, <2>5 DEF Writers
<1>3. ASSUME NEW h \in Helpers, Leaves(h) PROVE Writers'
  <2>1. Writer(helper'[h])
    BY <1>3 DEF Leaves, Durable, Versions, Writers, Writer, Local, SameCommand, SameGate, SameWrite, SameTalk,
       Clear, Ends, Advances, AdvancesOnly
  <2>2. file' = file /\ helper'[h].rank \in {helper[h].rank, 0}
    BY <1>3 DEF Leaves, Still, fileVars, SameCommand, SameGate, SameWrite, SameTalk, Clear, Ends, Advances,
       AdvancesOnly
  <2>3. file.rank \in Nat /\ file'.rank \in Nat /\ file.rank <= file'.rank
    BY <2>2 DEF Durable, Versions
  <2>4. \A o \in Helpers \ {h} : Writer(helper'[o]) /\ helper'[o].rank = helper[o].rank
    BY <1>3, BystanderWriter DEF Leaves, Durable, Writers, Moves, Advances, AdvancesOnly
  <2>5. \A o \in Helpers : helper[o].rank \in Nat /\ helper[o].rank <= file.rank
    BY DEF Durable, Writers, Writer
  <2> QED
    BY <2>1, <2>2, <2>3, <2>4, <2>5 DEF Writers
<1>4. ASSUME NEW h \in Helpers, Checks(h) PROVE Writers'
  <2>1. Writer(helper'[h])
    BY <1>4 DEF Checks, Durable, Versions, Writers, Writer, Local, SameCommand, SameGate, SameWrite, SameTalk,
       Clear, Ends, Advances, AdvancesOnly
  <2>2. file' = file /\ helper'[h].rank \in {helper[h].rank, 0}
    BY <1>4 DEF Checks, Still, fileVars, SameCommand, SameGate, SameWrite, SameTalk, Clear, Ends, Advances,
       AdvancesOnly
  <2>3. file.rank \in Nat /\ file'.rank \in Nat /\ file.rank <= file'.rank
    BY <2>2 DEF Durable, Versions
  <2>4. \A o \in Helpers \ {h} : Writer(helper'[o]) /\ helper'[o].rank = helper[o].rank
    BY <1>4, BystanderWriter DEF Checks, Durable, Writers, Moves, Advances, AdvancesOnly
  <2>5. \A o \in Helpers : helper[o].rank \in Nat /\ helper[o].rank <= file.rank
    BY DEF Durable, Writers, Writer
  <2> QED
    BY <2>1, <2>2, <2>3, <2>4, <2>5 DEF Writers
<1>5. ASSUME NEW h \in Helpers, Opens(h) PROVE Writers'
  <2>1. Writer(helper'[h])
    BY <1>5 DEF Opens, Durable, Versions, Writers, Writer, Local, SameCommand, SameGate, SameWrite, SameTalk,
       Clear, Ends, Advances, AdvancesOnly
  <2>2. file' = file /\ helper'[h].rank \in {helper[h].rank, 0}
    BY <1>5 DEF Opens, Still, fileVars, SameCommand, SameGate, SameWrite, SameTalk, Clear, Ends, Advances,
       AdvancesOnly
  <2>3. file.rank \in Nat /\ file'.rank \in Nat /\ file.rank <= file'.rank
    BY <2>2 DEF Durable, Versions
  <2>4. \A o \in Helpers \ {h} : Writer(helper'[o]) /\ helper'[o].rank = helper[o].rank
    BY <1>5, BystanderWriter DEF Opens, Durable, Writers, Moves, Advances, AdvancesOnly
  <2>5. \A o \in Helpers : helper[o].rank \in Nat /\ helper[o].rank <= file.rank
    BY DEF Durable, Writers, Writer
  <2> QED
    BY <2>1, <2>2, <2>3, <2>4, <2>5 DEF Writers
<1>6. ASSUME NEW h \in Helpers, Binds(h) PROVE Writers'
  <2>1. Writer(helper'[h])
    BY <1>6 DEF Binds, Durable, Versions, Writers, Writer, Local, SameCommand, SameGate, SameWrite, SameTalk,
       Clear, Ends, Advances, AdvancesOnly
  <2>2. file' = file /\ helper'[h].rank \in {helper[h].rank, 0}
    BY <1>6 DEF Binds, Still, fileVars, SameCommand, SameGate, SameWrite, SameTalk, Clear, Ends, Advances,
       AdvancesOnly
  <2>3. file.rank \in Nat /\ file'.rank \in Nat /\ file.rank <= file'.rank
    BY <2>2 DEF Durable, Versions
  <2>4. \A o \in Helpers \ {h} : Writer(helper'[o]) /\ helper'[o].rank = helper[o].rank
    BY <1>6, BystanderWriter DEF Binds, Durable, Writers, Moves, Advances, AdvancesOnly
  <2>5. \A o \in Helpers : helper[o].rank \in Nat /\ helper[o].rank <= file.rank
    BY DEF Durable, Writers, Writer
  <2> QED
    BY <2>1, <2>2, <2>3, <2>4, <2>5 DEF Writers
<1>7. ASSUME NEW h \in Helpers, Acquires(h) PROVE Writers'
  <2>1. Writer(helper'[h])
    BY <1>7 DEF Acquires, Durable, Versions, Writers, Writer, Local, SameCommand, SameGate, SameWrite, SameTalk,
       Clear, Ends, Advances, AdvancesOnly
  <2>2. file' = file /\ helper'[h].rank \in {helper[h].rank, 0}
    BY <1>7 DEF Acquires, Still, fileVars, SameCommand, SameGate, SameWrite, SameTalk, Clear, Ends, Advances,
       AdvancesOnly
  <2>3. file.rank \in Nat /\ file'.rank \in Nat /\ file.rank <= file'.rank
    BY <2>2 DEF Durable, Versions
  <2>4. \A o \in Helpers \ {h} : Writer(helper'[o]) /\ helper'[o].rank = helper[o].rank
    BY <1>7, BystanderWriter DEF Acquires, Durable, Writers, Moves, Advances, AdvancesOnly
  <2>5. \A o \in Helpers : helper[o].rank \in Nat /\ helper[o].rank <= file.rank
    BY DEF Durable, Writers, Writer
  <2> QED
    BY <2>1, <2>2, <2>3, <2>4, <2>5 DEF Writers
<1>8. ASSUME NEW h \in Helpers, Reads(h) PROVE Writers'
  <2>1. Writer(helper'[h])
    BY <1>8 DEF Reads, Durable, Versions, Writers, Writer, Local, SameCommand, SameGate, SameWrite, SameTalk,
       Clear, Ends, Advances, AdvancesOnly
  <2>2. file' = file /\ helper'[h].rank \in {helper[h].rank, 0}
    BY <1>8 DEF Reads, Still, fileVars, SameCommand, SameGate, SameWrite, SameTalk, Clear, Ends, Advances,
       AdvancesOnly
  <2>3. file.rank \in Nat /\ file'.rank \in Nat /\ file.rank <= file'.rank
    BY <2>2 DEF Durable, Versions
  <2>4. \A o \in Helpers \ {h} : Writer(helper'[o]) /\ helper'[o].rank = helper[o].rank
    BY <1>8, BystanderWriter DEF Reads, Durable, Writers, Moves, Advances, AdvancesOnly
  <2>5. \A o \in Helpers : helper[o].rank \in Nat /\ helper[o].rank <= file.rank
    BY DEF Durable, Writers, Writer
  <2> QED
    BY <2>1, <2>2, <2>3, <2>4, <2>5 DEF Writers
<1>9. ASSUME NEW h \in Helpers, Writes(h) PROVE Writers'
  <2>1. Writer(helper'[h])
    BY <1>9 DEF Writes, Durable, Versions, Writers, Writer, Local, SameCommand, SameGate, SameWrite, SameTalk,
       Clear, Ends, Advances, AdvancesOnly
  <2>2. file' = file /\ helper'[h].rank \in {helper[h].rank, 0}
    BY <1>9 DEF Writes, Still, fileVars, SameCommand, SameGate, SameWrite, SameTalk, Clear, Ends, Advances,
       AdvancesOnly
  <2>3. file.rank \in Nat /\ file'.rank \in Nat /\ file.rank <= file'.rank
    BY <2>2 DEF Durable, Versions
  <2>4. \A o \in Helpers \ {h} : Writer(helper'[o]) /\ helper'[o].rank = helper[o].rank
    BY <1>9, BystanderWriter DEF Writes, Durable, Writers, Moves, Advances, AdvancesOnly
  <2>5. \A o \in Helpers : helper[o].rank \in Nat /\ helper[o].rank <= file.rank
    BY DEF Durable, Writers, Writer
  <2> QED
    BY <2>1, <2>2, <2>3, <2>4, <2>5 DEF Writers
<1>10. ASSUME NEW h \in Helpers, Renames(h) PROVE Writers'
  <2>1. Writer(helper'[h])
    BY <1>10 DEF Renames, Durable, Versions, Writers, Writer, Local, SameCommand, SameGate, SameWrite, SameTalk,
       Clear, Ends, Advances, AdvancesOnly
  <2>2. file'.rank = ranks + 1 /\ helper'[h].rank = ranks + 1
    BY <1>10 DEF Renames, Still, fileVars, SameCommand, SameGate, SameWrite, SameTalk, Clear, Ends, Advances,
       AdvancesOnly
  <2>3. file.rank \in Nat /\ file'.rank \in Nat /\ file.rank <= file'.rank
    BY <2>2 DEF Durable, Versions
  <2>4. \A o \in Helpers \ {h} : Writer(helper'[o]) /\ helper'[o].rank = helper[o].rank
    BY <1>10, BystanderWriter DEF Renames, Durable, Writers, Moves, Advances, AdvancesOnly
  <2>5. \A o \in Helpers : helper[o].rank \in Nat /\ helper[o].rank <= file.rank
    BY DEF Durable, Writers, Writer
  <2> QED
    BY <2>1, <2>2, <2>3, <2>4, <2>5 DEF Writers
<1>11. ASSUME NEW h \in Helpers, Saves(h) PROVE Writers'
  <2>1. Writer(helper'[h])
    BY <1>11 DEF Saves, Durable, Versions, Writers, Writer, Local, SameCommand, SameGate, SameWrite, SameTalk,
       Clear, Ends, Advances, AdvancesOnly
  <2>2. file' = file /\ helper'[h].rank \in {helper[h].rank, 0}
    BY <1>11 DEF Saves, Still, fileVars, SameCommand, SameGate, SameWrite, SameTalk, Clear, Ends, Advances,
       AdvancesOnly
  <2>3. file.rank \in Nat /\ file'.rank \in Nat /\ file.rank <= file'.rank
    BY <2>2 DEF Durable, Versions
  <2>4. \A o \in Helpers \ {h} : Writer(helper'[o]) /\ helper'[o].rank = helper[o].rank
    BY <1>11, BystanderWriter DEF Saves, Durable, Writers, Moves, Advances, AdvancesOnly
  <2>5. \A o \in Helpers : helper[o].rank \in Nat /\ helper[o].rank <= file.rank
    BY DEF Durable, Writers, Writer
  <2> QED
    BY <2>1, <2>2, <2>3, <2>4, <2>5 DEF Writers
<1>12. ASSUME NEW h \in Helpers, Goes(h) PROVE Writers'
  <2>1. Writer(helper'[h])
    BY <1>12 DEF Goes, Durable, Versions, Writers, Writer, Local, SameCommand, SameGate, SameWrite, SameTalk,
       Clear, Ends, Advances, AdvancesOnly
  <2>2. file' = file /\ helper'[h].rank \in {helper[h].rank, 0}
    BY <1>12 DEF Goes, Still, fileVars, SameCommand, SameGate, SameWrite, SameTalk, Clear, Ends, Advances,
       AdvancesOnly
  <2>3. file.rank \in Nat /\ file'.rank \in Nat /\ file.rank <= file'.rank
    BY <2>2 DEF Durable, Versions
  <2>4. \A o \in Helpers \ {h} : Writer(helper'[o]) /\ helper'[o].rank = helper[o].rank
    BY <1>12, BystanderWriter DEF Goes, Durable, Writers, Moves, Advances, AdvancesOnly
  <2>5. \A o \in Helpers : helper[o].rank \in Nat /\ helper[o].rank <= file.rank
    BY DEF Durable, Writers, Writer
  <2> QED
    BY <2>1, <2>2, <2>3, <2>4, <2>5 DEF Writers
<1>13. ASSUME NEW h \in Helpers, Confirms(h) PROVE Writers'
  <2>1. Writer(helper'[h])
    BY <1>13 DEF Confirms, Durable, Versions, Writers, Writer, Local, SameCommand, SameGate, SameWrite,
       SameTalk, Clear, Ends, Advances, AdvancesOnly
  <2>2. file' = file /\ helper'[h].rank \in {helper[h].rank, 0}
    BY <1>13 DEF Confirms, Still, fileVars, SameCommand, SameGate, SameWrite, SameTalk, Clear, Ends, Advances,
       AdvancesOnly
  <2>3. file.rank \in Nat /\ file'.rank \in Nat /\ file.rank <= file'.rank
    BY <2>2 DEF Durable, Versions
  <2>4. \A o \in Helpers \ {h} : Writer(helper'[o]) /\ helper'[o].rank = helper[o].rank
    BY <1>13, BystanderWriter DEF Confirms, Durable, Writers, Moves, Advances, AdvancesOnly
  <2>5. \A o \in Helpers : helper[o].rank \in Nat /\ helper[o].rank <= file.rank
    BY DEF Durable, Writers, Writer
  <2> QED
    BY <2>1, <2>2, <2>3, <2>4, <2>5 DEF Writers
<1>14. ASSUME NEW h \in Helpers, Purges(h) PROVE Writers'
  <2>1. Writer(helper'[h])
    BY <1>14 DEF Purges, Durable, Versions, Writers, Writer, Local, SameCommand, SameGate, SameWrite, SameTalk,
       Clear, Ends, Advances, AdvancesOnly
  <2>2. file'.rank = ranks + 1 /\ helper'[h].rank \in {helper[h].rank, 0}
    BY <1>14 DEF Purges, Still, fileVars, SameCommand, SameGate, SameWrite, SameTalk, Clear, Ends, Advances,
       AdvancesOnly
  <2>3. file.rank \in Nat /\ file'.rank \in Nat /\ file.rank <= file'.rank
    BY <2>2 DEF Durable, Versions
  <2>4. \A o \in Helpers \ {h} : Writer(helper'[o]) /\ helper'[o].rank = helper[o].rank
    BY <1>14, BystanderWriter DEF Purges, Durable, Writers, Moves, Advances, AdvancesOnly
  <2>5. \A o \in Helpers : helper[o].rank \in Nat /\ helper[o].rank <= file.rank
    BY DEF Durable, Writers, Writer
  <2> QED
    BY <2>1, <2>2, <2>3, <2>4, <2>5 DEF Writers
<1>15. ASSUME NEW h \in Helpers, Releases(h) PROVE Writers'
  <2>1. Writer(helper'[h])
    BY <1>15 DEF Releases, Durable, Versions, Writers, Writer, Local, SameCommand, SameGate, SameWrite,
       SameTalk, Clear, Ends, Advances, AdvancesOnly
  <2>2. file' = file /\ helper'[h].rank \in {helper[h].rank, 0}
    BY <1>15 DEF Releases, Still, fileVars, SameCommand, SameGate, SameWrite, SameTalk, Clear, Ends, Advances,
       AdvancesOnly
  <2>3. file.rank \in Nat /\ file'.rank \in Nat /\ file.rank <= file'.rank
    BY <2>2 DEF Durable, Versions
  <2>4. \A o \in Helpers \ {h} : Writer(helper'[o]) /\ helper'[o].rank = helper[o].rank
    BY <1>15, BystanderWriter DEF Releases, Durable, Writers, Moves, Advances, AdvancesOnly
  <2>5. \A o \in Helpers : helper[o].rank \in Nat /\ helper[o].rank <= file.rank
    BY DEF Durable, Writers, Writer
  <2> QED
    BY <2>1, <2>2, <2>3, <2>4, <2>5 DEF Writers
<1>16. ASSUME NEW h \in Helpers, Unlinks(h) PROVE Writers'
  <2>1. Writer(helper'[h])
    BY <1>16 DEF Unlinks, Durable, Versions, Writers, Writer, Local, SameCommand, SameGate, SameWrite, SameTalk,
       Clear, Ends, Advances, AdvancesOnly
  <2>2. file' = file /\ helper'[h].rank \in {helper[h].rank, 0}
    BY <1>16 DEF Unlinks, Still, fileVars, SameCommand, SameGate, SameWrite, SameTalk, Clear, Ends, Advances,
       AdvancesOnly
  <2>3. file.rank \in Nat /\ file'.rank \in Nat /\ file.rank <= file'.rank
    BY <2>2 DEF Durable, Versions
  <2>4. \A o \in Helpers \ {h} : Writer(helper'[o]) /\ helper'[o].rank = helper[o].rank
    BY <1>16, BystanderWriter DEF Unlinks, Durable, Writers, Moves, Advances, AdvancesOnly
  <2>5. \A o \in Helpers : helper[o].rank \in Nat /\ helper[o].rank <= file.rank
    BY DEF Durable, Writers, Writer
  <2> QED
    BY <2>1, <2>2, <2>3, <2>4, <2>5 DEF Writers
<1>17. CASE PowerLoss
  <2>1. file' \in onDisk
    BY <1>17 DEF PowerLoss
  <2> QED
    BY <1>17, <2>1, LostControl, FreshFits DEF Clear, Durable, Versions, Writers, Writer
<1>18. CASE UNCHANGED vars
  BY <1>18 DEF vars, Durable, Writers
<1>19. LocalPastGate
  BY DEF Control, Fitting, Fits, LocalPastGate
<1> QED
  BY StepCases, <1>1, <1>2, <1>3, <1>4, <1>5, <1>6, <1>7, <1>8, <1>9, <1>10, <1>11, <1>12, <1>13, <1>14, <1>15,
     <1>16, <1>17, <1>18, <1>19 DEF Control

\* Settings that a config apply reported as saved are never lost, whatever runs
\* next to it, is killed or loses power, for any number of processes, any
\* documents and any number of runs (replace_atomically_with()).
THEOREM SavedSettingsSurviveHolds == Spec => []SavedSettingsSurvive
<1>1. Durable => SavedSettingsSurvive
  <2> SUFFICES ASSUME Durable PROVE SavedSettingsSurvive
    OBVIOUS
  <2>1. \A v \in onDisk \cup {file} : v.rank >= saved /\ ~v.torn
    BY DEF Durable, Versions
  <2> QED
    BY <2>1 DEF SavedSettingsSurvive
<1>2. Control /\ Durable /\ [Next]_vars => Durable'
  BY NextVersions, NextWriters DEF Durable
<1> QED
  BY <1>1, <1>2, InitControl, NextControl, InitDurable, PTL DEF Spec

---------------------------------------------------------------------------
(* update check: what a process that ended well has printed.               *)

Checked(p) == p.pc = "done" /\ p.command = Only("update check") /\ p.exit = 0 => Answered(p)

ChecksAreAnswered == \A h \in Helpers : Checked(helper[h])

\* UpdateCheck::run()'s document, as the plugin's dialog takes it.
LEMMA DocumentOffers ==
  ASSUME NEW receipt, NEW probe, NEW git \in BOOLEAN, NEW doc, NEW answer,
         receipt = Fetched(answer), doc = UpdateCheckRun(answer, probe, git), doc # CheckFails
  PROVE  LET told  == probe.exit = 0 /\ probe.version # NoVersion
             newer == receipt.version > CARGO_VERSION
             fits  == probe.version >= receipt.minimum
         IN  /\ CheckPhase(doc) # "error"
             /\ CheckPhase(doc) = "reinstall_required" <=> ~git
             /\ CheckPhase(doc) = "update_available" => git /\ newer /\ (told => fits)
             /\ git /\ newer /\ told /\ fits => CheckPhase(doc) = "update_available"
<1> DEFINE quickshell == QuickshellVersion(probe)
           offered == git /\ quickshell >= receipt.minimum
           newer == receipt.version > CARGO_VERSION
           latest == IF offered
                     THEN [version |-> receipt.version, contract |-> receipt.contract, minimum |-> receipt.minimum]
                     ELSE NoOffer
<1>1. doc = UpdateCheckDocument(receipt, quickshell, ~git) /\ ValidCheck(doc)
  BY DEF UpdateCheckRun
<1>2. doc = [reinstall |-> ~git, available |-> offered /\ newer, latest |-> latest]
  BY <1>1 DEF UpdateCheckDocument, Compatible
<1> HIDE DEF latest
<1>3. doc.reinstall = ~git /\ doc.available = (offered /\ newer) /\ doc.latest = latest
  BY <1>2
<1>4. doc.available => doc.latest # NoOffer
  BY <1>1 DEF ValidCheck
<1>5. CheckPhase(doc) = IF ~git THEN "reinstall_required"
                        ELSE IF offered /\ newer THEN "update_available" ELSE "up_to_date"
  BY <1>3, <1>4 DEF CheckPhase
<1>6. probe.exit = 0 /\ probe.version # NoVersion => quickshell = probe.version
  BY DEF QuickshellVersion
<1> HIDE DEF quickshell
<1> QED
  BY <1>5, <1>6

LEMMA CheckVerb == Only("update check").verb = "update check"
BY DEF Only

LEMMA InitChecked == Init => ChecksAreAnswered
BY FreshFits DEF Init, ChecksAreAnswered, Checked

LEMMA BystanderChecked ==
  ASSUME NEW p, NEW q, Bystander(p, q), Checked(p)
  PROVE  Checked(q)
BY DEF Bystander, SameCommand, SameTalk, Checked, Answered

LEMMA NextChecked == Control /\ ChecksAreAnswered /\ [Next]_vars => ChecksAreAnswered'
<1> SUFFICES ASSUME Control, ChecksAreAnswered, [Next]_vars PROVE ChecksAreAnswered'
  OBVIOUS
<1>1. ASSUME NEW h \in Helpers, Launches(h) PROVE ChecksAreAnswered'
  <2>1. Checked(helper'[h])
    <3>1. helper'[h].pc = "done" => helper'[h].command.verb # "update check"
      BY <1>1 DEF Launches
    <3> QED
      BY <3>1, CheckVerb DEF Checked
  <2>2. \A o \in Helpers \ {h} : Checked(helper'[o])
    BY <1>1, BystanderChecked DEF Launches, ChecksAreAnswered, Moves, Advances, AdvancesOnly
  <2> QED
    BY <2>1, <2>2 DEF ChecksAreAnswered
<1>2. ASSUME NEW h \in Helpers, Vanishes(h) PROVE ChecksAreAnswered'
  <2>1. Checked(helper'[h])
    BY <1>2 DEF Vanishes, Checked, Advances, AdvancesOnly
  <2>2. \A o \in Helpers \ {h} : Checked(helper'[o])
    BY <1>2, BystanderChecked DEF Vanishes, ChecksAreAnswered, Moves, Advances, AdvancesOnly
  <2> QED
    BY <2>1, <2>2 DEF ChecksAreAnswered
<1>3. ASSUME NEW h \in Helpers, Leaves(h) PROVE ChecksAreAnswered'
  <2>1. Checked(helper'[h])
    <3>1. helper'[h].pc = "done" => helper'[h].command.verb # "update check"
      BY <1>3 DEF Leaves, Control, Fitting, Fits, Local, WriteSteps, LockedSteps, SameCommand, SameGate,
         SameWrite, SameTalk, Clear, Ends, Advances, AdvancesOnly
    <3> QED
      BY <3>1, CheckVerb DEF Checked
  <2>2. \A o \in Helpers \ {h} : Checked(helper'[o])
    BY <1>3, BystanderChecked DEF Leaves, ChecksAreAnswered, Moves, Advances, AdvancesOnly
  <2> QED
    BY <2>1, <2>2 DEF ChecksAreAnswered
<1>4. ASSUME NEW h \in Helpers, Checks(h) PROVE ChecksAreAnswered'
  <2>1. Checked(helper'[h])
    <3>1. PICK code : helper'[h].exit = code /\ (code = 0 => Answered(helper'[h]))
      BY <1>4 DEF Checks, Ends
    <3> QED
      BY <3>1 DEF Checked
  <2>2. \A o \in Helpers \ {h} : Checked(helper'[o])
    BY <1>4, BystanderChecked DEF Checks, ChecksAreAnswered, Moves, Advances, AdvancesOnly
  <2> QED
    BY <2>1, <2>2 DEF ChecksAreAnswered
<1>5. ASSUME NEW h \in Helpers, Opens(h) PROVE ChecksAreAnswered'
  <2>1. Checked(helper'[h])
    BY <1>5 DEF Opens, Checked, Advances, AdvancesOnly
  <2>2. \A o \in Helpers \ {h} : Checked(helper'[o])
    BY <1>5, BystanderChecked DEF Opens, ChecksAreAnswered, Moves, Advances, AdvancesOnly
  <2> QED
    BY <2>1, <2>2 DEF ChecksAreAnswered
<1>6. ASSUME NEW h \in Helpers, Binds(h) PROVE ChecksAreAnswered'
  <2>1. Checked(helper'[h])
    BY <1>6 DEF Binds, Checked, Advances, AdvancesOnly
  <2>2. \A o \in Helpers \ {h} : Checked(helper'[o])
    BY <1>6, BystanderChecked DEF Binds, ChecksAreAnswered, Moves, Advances, AdvancesOnly
  <2> QED
    BY <2>1, <2>2 DEF ChecksAreAnswered
<1>7. ASSUME NEW h \in Helpers, Acquires(h) PROVE ChecksAreAnswered'
  <2>1. Checked(helper'[h])
    BY <1>7 DEF Acquires, Checked, Advances, AdvancesOnly
  <2>2. \A o \in Helpers \ {h} : Checked(helper'[o])
    BY <1>7, BystanderChecked DEF Acquires, ChecksAreAnswered, Moves, Advances, AdvancesOnly
  <2> QED
    BY <2>1, <2>2 DEF ChecksAreAnswered
<1>8. ASSUME NEW h \in Helpers, Reads(h) PROVE ChecksAreAnswered'
  <2>1. Checked(helper'[h])
    BY <1>8 DEF Reads, Checked, Advances, AdvancesOnly
  <2>2. \A o \in Helpers \ {h} : Checked(helper'[o])
    BY <1>8, BystanderChecked DEF Reads, ChecksAreAnswered, Moves, Advances, AdvancesOnly
  <2> QED
    BY <2>1, <2>2 DEF ChecksAreAnswered
<1>9. ASSUME NEW h \in Helpers, Writes(h) PROVE ChecksAreAnswered'
  <2>1. Checked(helper'[h])
    BY <1>9 DEF Writes, Checked, Advances, AdvancesOnly
  <2>2. \A o \in Helpers \ {h} : Checked(helper'[o])
    BY <1>9, BystanderChecked DEF Writes, ChecksAreAnswered, Moves, Advances, AdvancesOnly
  <2> QED
    BY <2>1, <2>2 DEF ChecksAreAnswered
<1>10. ASSUME NEW h \in Helpers, Renames(h) PROVE ChecksAreAnswered'
  <2>1. Checked(helper'[h])
    BY <1>10 DEF Renames, Checked, Advances, AdvancesOnly
  <2>2. \A o \in Helpers \ {h} : Checked(helper'[o])
    BY <1>10, BystanderChecked DEF Renames, ChecksAreAnswered, Moves, Advances, AdvancesOnly
  <2> QED
    BY <2>1, <2>2 DEF ChecksAreAnswered
<1>11. ASSUME NEW h \in Helpers, Saves(h) PROVE ChecksAreAnswered'
  <2>1. Checked(helper'[h])
    <3>1. helper'[h].pc = "done" => helper'[h].command.verb # "update check"
      BY <1>11 DEF Saves, Control, Fitting, Fits, Local, WriteSteps, LockedSteps, SameCommand, SameGate,
         SameWrite, SameTalk, Clear, Ends, Advances, AdvancesOnly
    <3> QED
      BY <3>1, CheckVerb DEF Checked
  <2>2. \A o \in Helpers \ {h} : Checked(helper'[o])
    BY <1>11, BystanderChecked DEF Saves, ChecksAreAnswered, Moves, Advances, AdvancesOnly
  <2> QED
    BY <2>1, <2>2 DEF ChecksAreAnswered
<1>12. ASSUME NEW h \in Helpers, Goes(h) PROVE ChecksAreAnswered'
  <2>1. Checked(helper'[h])
    BY <1>12 DEF Goes, Checked, Advances, AdvancesOnly
  <2>2. \A o \in Helpers \ {h} : Checked(helper'[o])
    BY <1>12, BystanderChecked DEF Goes, ChecksAreAnswered, Moves, Advances, AdvancesOnly
  <2> QED
    BY <2>1, <2>2 DEF ChecksAreAnswered
<1>13. ASSUME NEW h \in Helpers, Confirms(h) PROVE ChecksAreAnswered'
  <2>1. Checked(helper'[h])
    BY <1>13 DEF Confirms, Checked, Advances, AdvancesOnly
  <2>2. \A o \in Helpers \ {h} : Checked(helper'[o])
    BY <1>13, BystanderChecked DEF Confirms, ChecksAreAnswered, Moves, Advances, AdvancesOnly
  <2> QED
    BY <2>1, <2>2 DEF ChecksAreAnswered
<1>14. ASSUME NEW h \in Helpers, Purges(h) PROVE ChecksAreAnswered'
  <2>1. Checked(helper'[h])
    <3>1. helper'[h].pc = "done" => helper'[h].command.verb # "update check"
      BY <1>14 DEF Purges, Control, Fitting, Fits, Local, WriteSteps, LockedSteps, SameCommand, SameGate,
         SameWrite, SameTalk, Clear, Ends, Advances, AdvancesOnly
    <3> QED
      BY <3>1, CheckVerb DEF Checked
  <2>2. \A o \in Helpers \ {h} : Checked(helper'[o])
    BY <1>14, BystanderChecked DEF Purges, ChecksAreAnswered, Moves, Advances, AdvancesOnly
  <2> QED
    BY <2>1, <2>2 DEF ChecksAreAnswered
<1>15. ASSUME NEW h \in Helpers, Releases(h) PROVE ChecksAreAnswered'
  <2>1. Checked(helper'[h])
    BY <1>15 DEF Releases, Checked, Advances, AdvancesOnly
  <2>2. \A o \in Helpers \ {h} : Checked(helper'[o])
    BY <1>15, BystanderChecked DEF Releases, ChecksAreAnswered, Moves, Advances, AdvancesOnly
  <2> QED
    BY <2>1, <2>2 DEF ChecksAreAnswered
<1>16. ASSUME NEW h \in Helpers, Unlinks(h) PROVE ChecksAreAnswered'
  <2>1. Checked(helper'[h])
    <3>1. helper'[h].pc = "done" => helper'[h].command.verb # "update check"
      BY <1>16 DEF Unlinks, Control, Fitting, Fits, Local, WriteSteps, LockedSteps, SameCommand, SameGate,
         SameWrite, SameTalk, Clear, Ends, Advances, AdvancesOnly
    <3> QED
      BY <3>1, CheckVerb DEF Checked
  <2>2. \A o \in Helpers \ {h} : Checked(helper'[o])
    BY <1>16, BystanderChecked DEF Unlinks, ChecksAreAnswered, Moves, Advances, AdvancesOnly
  <2> QED
    BY <2>1, <2>2 DEF ChecksAreAnswered
<1>17. CASE PowerLoss
  BY <1>17, LostControl, FreshFits DEF Checked, ChecksAreAnswered
<1>18. CASE UNCHANGED vars
  BY <1>18 DEF vars, Checked, Answered, ChecksAreAnswered
<1>19. LocalPastGate
  BY DEF Control, Fitting, Fits, LocalPastGate
<1> QED
  BY StepCases, <1>1, <1>2, <1>3, <1>4, <1>5, <1>6, <1>7, <1>8, <1>9, <1>10, <1>11, <1>12, <1>13, <1>14, <1>15,
     <1>16, <1>17, <1>18, <1>19 DEF Control

\* The dialog takes every document of an update check that ended well, and offers
\* an update exactly when it can be installed, whatever the release's receipt,
\* the installed Quickshell and the plugin's tree are (UpdateCheck::run()).
THEOREM OffersAreInstallableHolds == Spec => []OffersAreInstallable
<1>1. ASSUME ChecksAreAnswered PROVE OffersAreInstallable
  <2>1. SUFFICES ASSUME NEW h \in Helpers,
                        helper[h].pc = "done" /\ helper[h].command = Only("update check") /\ helper[h].exit = 0
                 PROVE  LET p     == helper[h]
                            told  == p.input.quickshell.exit = 0 /\ p.input.quickshell.version # NoVersion
                            newer == p.input.receipt.version > CARGO_VERSION
                            fits  == p.input.quickshell.version >= p.input.receipt.minimum
                        IN  /\ CheckPhase(p.out) # "error"
                            /\ CheckPhase(p.out) = "reinstall_required" <=> ~p.input.git
                            /\ CheckPhase(p.out) = "update_available" => p.input.git /\ newer /\ (told => fits)
                            /\ p.input.git /\ newer /\ told /\ fits => CheckPhase(p.out) = "update_available"
    BY DEF OffersAreInstallable
  <2>2. PICK answer, probe, git :
          /\ git \in BOOLEAN
          /\ helper[h].input = [receipt |-> Fetched(answer), quickshell |-> probe, git |-> git]
          /\ helper[h].out = UpdateCheckRun(answer, probe, git) /\ helper[h].out # CheckFails
    BY <1>1, <2>1 DEF ChecksAreAnswered, Checked, Answered
  <2>3. helper[h].input.receipt = Fetched(answer) /\ helper[h].input.quickshell = probe /\ helper[h].input.git = git
    BY <2>2
  <2> QED
    BY <2>2, <2>3, DocumentOffers
<1> QED
  BY <1>1, InitControl, NextControl, InitChecked, NextChecked, PTL DEF Spec

---------------------------------------------------------------------------
(* The argument lists: what the helper's grammar makes of the plugin's.    *)

LEMMA ParseByWord ==
  ASSUME NEW words, words # <<>>
  PROVE  /\ words[1] = "status" => Parse(words) = ParseStatus(Tail(words))
         /\ words[1] = "login" => Parse(words) = ParseLogin(Tail(words))
         /\ words[1] = "config" => Parse(words) = ParseConfig(Tail(words))
         /\ words[1] = "update" => Parse(words) = ParseUpdate(Tail(words))
         /\ words[1] = "uninstall" => Parse(words) = ParseUninstall(Tail(words))
         /\ words[1] = "reset" => Parse(words) = ParseReset(Tail(words))
BY DEF Parse

LEMMA ArgvOf ==
  ASSUME NEW intent
  PROVE  /\ intent.kind = "status" => Argv(intent) = StatusArgv(intent.targets)
         /\ intent.kind = "login" => Argv(intent) = <<"login", intent.provider>>
         /\ intent.kind = "reset" => Argv(intent) = <<"reset", "claude", intent.id>>
         /\ intent.kind = "show" => Argv(intent) = <<"config", "show">>
         /\ intent.kind = "apply" => Argv(intent) = <<"config", "apply", "stdin">>
         /\ intent.kind = "check" => Argv(intent) = <<"update", "check">>
         /\ intent.kind = "update" => Argv(intent) = <<"update", "apply">>
         /\ intent.kind = "progress" => Argv(intent) = <<"update", "status">>
         /\ intent.kind = "uninstall" =>
              Argv(intent) = IF intent.purge THEN <<"uninstall", "purge">> ELSE <<"uninstall">>
BY DEF Argv

LEMMA MeansOf ==
  ASSUME NEW intent, NEW command
  PROVE  /\ intent.kind = "login" =>
              (Means(command, intent) <=> command = [verb |-> "login", provider |-> intent.provider])
         /\ intent.kind = "reset" => (Means(command, intent) <=> command = [verb |-> "reset", id |-> intent.id])
         /\ intent.kind = "show" => (Means(command, intent) <=> command = Only("config show"))
         /\ intent.kind = "apply" =>
              (Means(command, intent) <=> command = [verb |-> "config apply", from |-> "stdin"])
         /\ intent.kind = "check" => (Means(command, intent) <=> command = Only("update check"))
         /\ intent.kind = "update" => (Means(command, intent) <=> command = Only("update apply"))
         /\ intent.kind = "progress" => (Means(command, intent) <=> command = Only("update status"))
         /\ intent.kind = "uninstall" =>
              (Means(command, intent) <=> command = [verb |-> "uninstall", purge |-> intent.purge])
BY DEF Means

\* The words a status takes, and the argument list with them.
SharedClauses(cache) == <<"format", "json", "cache", cache, "notifications", "evaluate">>
NamedClauses(cache, id) == <<"format", "json", "cache", cache, "notifications", "evaluate", "provider", id>>
StatusWords(cache) == <<"status", "format", "json", "cache", cache, "notifications", "evaluate">>
NamedStatusWords(cache, id) ==
  <<"status", "format", "json", "cache", cache, "notifications", "evaluate", "provider", id>>

LEMMA StatusWordsTail ==
  ASSUME NEW cache
  PROVE  /\ StatusWords(cache) # <<>> /\ StatusWords(cache)[1] = "status"
         /\ Tail(StatusWords(cache)) = SharedClauses(cache)
BY DEF StatusWords, SharedClauses

LEMMA NamedStatusWordsTail ==
  ASSUME NEW cache, NEW id
  PROVE  /\ NamedStatusWords(cache, id) # <<>> /\ NamedStatusWords(cache, id)[1] = "status"
         /\ Tail(NamedStatusWords(cache, id)) = NamedClauses(cache, id)
BY DEF NamedStatusWords, NamedClauses

LEMMA ClauseNames ==
  /\ DOMAIN Clauses = {"format", "provider", "cache", "notifications"}
  /\ Clauses["format"] = {"human", "json"} /\ Clauses["provider"] = Catalog
  /\ Clauses["cache"] = {"use", "bypass"} /\ Clauses["notifications"] = {"evaluate", "skip"}
BY DEF Clauses

LEMMA DefaultClauses ==
  /\ DefaultOptions["format"] = "human" /\ DefaultOptions["provider"] = "all"
  /\ DefaultOptions["cache"] = "use" /\ DefaultOptions["notifications"] = "skip"
BY DEF DefaultOptions

\* Where the clauses of a status have their names, and a list that is one.
NamesAt(words) == {i \in DOMAIN words : i % 2 = 1}

WellFormed(words) ==
  /\ Len(words) % 2 = 0 /\ NamesAt(words) \subseteq Int
  /\ \A i \in NamesAt(words) : words[i] \in DOMAIN Clauses /\ words[i + 1] \in Clauses[words[i]]
  /\ \A i, j \in NamesAt(words) : words[i] = words[j] => i = j

\* A well-formed list of clauses says what it names, and the defaults for the rest.
LEMMA StatusIsParsed ==
  ASSUME NEW words, WellFormed(words)
  PROVE /\ ParseStatus(words).verb = "status"
        /\ \A c \in DOMAIN Clauses : \A i \in NamesAt(words) :
             words[i] = c => ParseStatus(words).options[c] = words[i + 1]
        /\ \A c \in DOMAIN Clauses :
             (\A i \in NamesAt(words) : words[i] # c) => ParseStatus(words).options[c] = DefaultOptions[c]
<1>0. PICK names : names = NamesAt(words)
  OBVIOUS
<1> DEFINE at(c) == {i \in names : words[i] = c}
           options == [c \in DOMAIN Clauses |->
                         IF at(c) = {} THEN DefaultOptions[c] ELSE words[1 + CHOOSE i \in at(c) : TRUE]]
<1>1. ParseStatus(words) = [verb |-> "status", options |-> options]
  BY <1>0 DEF ParseStatus, WellFormed, NamesAt
<1>2. ASSUME NEW c \in DOMAIN Clauses, NEW i \in names, words[i] = c PROVE options[c] = words[i + 1]
  <2>1. at(c) = {i}
    BY <1>0, <1>2 DEF WellFormed
  <2>2. (CHOOSE j \in at(c) : TRUE) = i
    BY <2>1
  <2>3. options[c] = words[1 + i]
    BY <2>1, <2>2
  <2> QED
    BY <1>0, <2>3 DEF WellFormed
<1>3. ASSUME NEW c \in DOMAIN Clauses, \A i \in names : words[i] # c PROVE options[c] = DefaultOptions[c]
  <2>1. at(c) = {}
    BY <1>3
  <2> QED
    BY <2>1
<1> HIDE DEF options
<1>4. ParseStatus(words).verb = "status" /\ ParseStatus(words).options = options
  BY <1>1
<1> QED
  BY <1>0, <1>2, <1>3, <1>4

LEMMA SharedClausesAreRead ==
  ASSUME NEW cache \in {"use", "bypass"}
  PROVE  /\ ParseStatus(SharedClauses(cache)).verb = "status"
         /\ ParseStatus(SharedClauses(cache)).options["format"] = "json"
         /\ ParseStatus(SharedClauses(cache)).options["cache"] = cache
         /\ ParseStatus(SharedClauses(cache)).options["notifications"] = "evaluate"
         /\ ParseStatus(SharedClauses(cache)).options["provider"] = "all"
<1> DEFINE words == SharedClauses(cache)
<1>1. /\ DOMAIN words = 1 .. 6 /\ Len(words) = 6
      /\ words[1] = "format" /\ words[2] = "json" /\ words[3] = "cache" /\ words[4] = cache
      /\ words[5] = "notifications" /\ words[6] = "evaluate"
  BY DEF SharedClauses
<1> HIDE DEF words
<1>2. NamesAt(words) = {1, 3, 5}
  BY <1>1 DEF NamesAt
<1>3. \A i \in NamesAt(words) : words[i] \in DOMAIN Clauses /\ words[i + 1] \in Clauses[words[i]]
  BY <1>1, <1>2, ClauseNames
<1>4. \A i, j \in NamesAt(words) : words[i] = words[j] => i = j
  BY <1>1, <1>2
<1>5. WellFormed(words)
  BY <1>1, <1>2, <1>3, <1>4 DEF WellFormed
<1>6. /\ ParseStatus(words).verb = "status"
      /\ \A c \in DOMAIN Clauses : \A i \in NamesAt(words) :
           words[i] = c => ParseStatus(words).options[c] = words[i + 1]
      /\ \A c \in DOMAIN Clauses :
           (\A i \in NamesAt(words) : words[i] # c) => ParseStatus(words).options[c] = DefaultOptions[c]
  BY <1>5, StatusIsParsed
<1>7. /\ ParseStatus(words).verb = "status"
      /\ ParseStatus(words).options["format"] = "json"
      /\ ParseStatus(words).options["cache"] = cache
      /\ ParseStatus(words).options["notifications"] = "evaluate"
      /\ ParseStatus(words).options["provider"] = "all"
  BY <1>1, <1>2, <1>6, ClauseNames, DefaultClauses
<1> QED
  BY <1>7 DEF words

LEMMA NamedClausesAreRead ==
  ASSUME NEW cache \in {"use", "bypass"}, NEW id \in Catalog
  PROVE  /\ ParseStatus(NamedClauses(cache, id)).verb = "status"
         /\ ParseStatus(NamedClauses(cache, id)).options["format"] = "json"
         /\ ParseStatus(NamedClauses(cache, id)).options["cache"] = cache
         /\ ParseStatus(NamedClauses(cache, id)).options["notifications"] = "evaluate"
         /\ ParseStatus(NamedClauses(cache, id)).options["provider"] = id
<1> DEFINE words == NamedClauses(cache, id)
<1>1. /\ DOMAIN words = 1 .. 8 /\ Len(words) = 8
      /\ words[1] = "format" /\ words[2] = "json" /\ words[3] = "cache" /\ words[4] = cache
      /\ words[5] = "notifications" /\ words[6] = "evaluate" /\ words[7] = "provider" /\ words[8] = id
  BY DEF NamedClauses
<1> HIDE DEF words
<1>2. NamesAt(words) = {1, 3, 5, 7}
  BY <1>1 DEF NamesAt
<1>3. \A i \in NamesAt(words) : words[i] \in DOMAIN Clauses /\ words[i + 1] \in Clauses[words[i]]
  BY <1>1, <1>2, ClauseNames
<1>4. \A i, j \in NamesAt(words) : words[i] = words[j] => i = j
  BY <1>1, <1>2
<1>5. WellFormed(words)
  BY <1>1, <1>2, <1>3, <1>4 DEF WellFormed
<1>6. /\ ParseStatus(words).verb = "status"
      /\ \A c \in DOMAIN Clauses : \A i \in NamesAt(words) :
           words[i] = c => ParseStatus(words).options[c] = words[i + 1]
      /\ \A c \in DOMAIN Clauses :
           (\A i \in NamesAt(words) : words[i] # c) => ParseStatus(words).options[c] = DefaultOptions[c]
  BY <1>5, StatusIsParsed
<1>7. /\ ParseStatus(words).verb = "status"
      /\ ParseStatus(words).options["format"] = "json"
      /\ ParseStatus(words).options["cache"] = cache
      /\ ParseStatus(words).options["notifications"] = "evaluate"
      /\ ParseStatus(words).options["provider"] = id
  BY <1>1, <1>2, <1>6, ClauseNames, DefaultClauses
<1> QED
  BY <1>7 DEF words

LEMMA CatalogNames ==
  Catalog = {"claude", "codex", "grok", "antigravity"} /\ IsFiniteSet(Catalog) /\ "all" \notin Catalog
<1>1. DOMAIN CatalogOrder = 1..4
  BY DEF CatalogOrder
<1>2. Catalog = {"claude", "codex", "grok", "antigravity"}
  BY <1>1 DEF Catalog, CatalogOrder
<1>3. IsFiniteSet({"claude"})
  <2>1. IsFiniteSet({} \cup {"claude"})
    BY FS_EmptySet, FS_AddElement
  <2> QED
    BY <2>1
<1>4. IsFiniteSet({"claude", "codex"})
  <2>1. IsFiniteSet({"claude"} \cup {"codex"})
    BY <1>3, FS_AddElement
  <2> QED
    BY <2>1
<1>5. IsFiniteSet({"claude", "codex", "grok"})
  <2>1. IsFiniteSet({"claude", "codex"} \cup {"grok"})
    BY <1>4, FS_AddElement
  <2> QED
    BY <2>1
<1>6. IsFiniteSet({"claude", "codex", "grok", "antigravity"})
  <2>1. IsFiniteSet({"claude", "codex", "grok"} \cup {"antigravity"})
    BY <1>5, FS_AddElement
  <2> QED
    BY <2>1
<1> QED
  BY <1>2, <1>6

LEMMA NamedStatusWordsJoin == ASSUME NEW c, NEW id
  PROVE StatusWords(c) \o <<"provider", id>> = NamedStatusWords(c, id)
<1> DEFINE two == <<"provider", id>>
           both == StatusWords(c) \o two
           nine == NamedStatusWords(c, id)
           S == {"status", "format", "json", "cache", "notifications", "evaluate", "provider", c, id}
<1>1. StatusWords(c) \in Seq(S) /\ Len(StatusWords(c)) = 7
  BY DEF StatusWords
<1>2. two \in Seq(S) /\ Len(two) = 2 /\ two[1] = "provider" /\ two[2] = id
  OBVIOUS
<1>3. nine \in Seq(S) /\ Len(nine) = 9 /\ nine[8] = "provider" /\ nine[9] = id
  BY DEF NamedStatusWords
<1>4. \A i \in 1 .. 7 : StatusWords(c)[i] = nine[i]
  <2>1. /\ StatusWords(c)[1] = nine[1] /\ StatusWords(c)[2] = nine[2] /\ StatusWords(c)[3] = nine[3]
        /\ StatusWords(c)[4] = nine[4]
        /\ StatusWords(c)[5] = nine[5] /\ StatusWords(c)[6] = nine[6] /\ StatusWords(c)[7] = nine[7]
    BY DEF StatusWords, NamedStatusWords
  <2> HIDE DEF nine
  <2> QED
    BY <2>1
<1> HIDE DEF nine, two, S
<1>5. /\ both \in Seq(S) /\ Len(both) = 9
      /\ \A i \in 1 .. 9 : both[i] = IF i <= 7 THEN StatusWords(c)[i] ELSE two[i - 7]
  <2>1. /\ both \in Seq(S) /\ Len(both) = Len(StatusWords(c)) + Len(two)
        /\ \A i \in 1 .. Len(StatusWords(c)) + Len(two) :
              both[i] = IF i <= Len(StatusWords(c)) THEN StatusWords(c)[i] ELSE two[i - Len(StatusWords(c))]
    BY <1>1, <1>2, ConcatProperties, Zenon
  <2> HIDE DEF both
  <2>2. Len(StatusWords(c)) + Len(two) = 9
    BY <1>1, <1>2
  <2> QED
    BY <1>1, <2>1, <2>2
<1> HIDE DEF both
<1>6. \A i \in 1 .. 9 : both[i] = nine[i]
  <2> SUFFICES ASSUME NEW i \in 1 .. 9 PROVE both[i] = nine[i]
    OBVIOUS
  <2>1. CASE i <= 7
    BY <1>4, <1>5, <2>1
  <2>2. CASE i = 8
    BY <1>2, <1>3, <1>5, <2>2
  <2>3. CASE i = 9
    BY <1>2, <1>3, <1>5, <2>3
  <2> QED
    BY <2>1, <2>2, <2>3
<1>7. both = nine
  BY <1>3, <1>5, <1>6, SeqEqual
<1> QED
  BY <1>7 DEF both, two, nine

\* statusArgv(): the two lists it makes.
LEMMA StatusArgvWords == ASSUME NEW targets, targets.all \in BOOLEAN, targets.ids \subseteq Catalog
 PROVE \E cache \in {"use", "bypass"} : /\ cache = "bypass" <=> (targets.all \/ targets.ids # {})
   /\ \/ (targets.all \/ Cardinality(targets.ids) # 1) /\ StatusArgv(targets) = StatusWords(cache)
      \/ ~targets.all /\ \E id \in Catalog : targets.ids = {id} /\ StatusArgv(targets) = NamedStatusWords(cache, id)
<1> DEFINE cache == IF targets.all \/ targets.ids # {} THEN "bypass" ELSE "use"
<1>1. CASE targets.all \/ Cardinality(targets.ids) # 1
  <2>1. StatusArgv(targets) = StatusWords(cache) \o <<>>
    BY <1>1 DEF StatusArgv, StatusWords
  <2>2. StatusArgv(targets) = StatusWords(cache)
    <3> HIDE DEF cache
    <3> QED
      BY <2>1 DEF StatusWords
  <2> QED
    BY <1>1, <2>2
<1>2. CASE ~targets.all /\ Cardinality(targets.ids) = 1
  <2>1. PICK id : targets.ids = {id}
    <3>1. IsFiniteSet(targets.ids)
      BY CatalogNames, FS_Subset
    <3> QED
      BY <1>2, <3>1, FS_Singleton
  <2>2. (CHOOSE x \in targets.ids : TRUE) = id /\ id \in Catalog
    BY <2>1
  <2>3. StatusArgv(targets) = StatusWords(cache) \o <<"provider", id>>
    <3>1. StatusArgv(targets) = StatusWords(cache) \o <<"provider", CHOOSE x \in targets.ids : TRUE>>
      BY <1>2 DEF StatusArgv, StatusWords
    <3> HIDE DEF cache
    <3> QED
      BY <2>2, <3>1
  <2>4. StatusArgv(targets) = NamedStatusWords(cache, id)
    BY <2>3, NamedStatusWordsJoin
  <2> QED
    BY <1>2, <2>1, <2>2, <2>4
<1> QED
  BY <1>1, <1>2

\* The grammar takes a status of targets as the plugin meant it.
LEMMA StatusMeans ==
  ASSUME NEW intent, intent.kind = "status", intent.targets.all \in BOOLEAN, intent.targets.ids \subseteq Catalog
  PROVE  Means(Parse(Argv(intent)), intent)
<1> DEFINE words == Argv(intent)
           targets == intent.targets
           command == Parse(words)
<1>1. words = StatusArgv(targets)
  BY ArgvOf
<1>2. PICK cache \in {"use", "bypass"} :
        /\ cache = "bypass" <=> (targets.all \/ targets.ids # {})
        /\ \/ /\ targets.all \/ Cardinality(targets.ids) # 1
              /\ words = StatusWords(cache)
           \/ /\ ~targets.all
              /\ \E id \in Catalog :
                   /\ targets.ids = {id}
                   /\ words = NamedStatusWords(cache, id)
  BY <1>1, StatusArgvWords
<1>3. Means(command, intent) <=>
        /\ command.verb = "status"
        /\ command.options.format = "json" /\ command.options.notifications = "evaluate"
        /\ targets.all => command.options.provider = "all"
        /\ command.options.provider = "all" \/ targets.ids = {command.options.provider}
        /\ command.options.cache = "bypass" <=> (targets.all \/ targets.ids # {})
        /\ Cardinality(targets.ids) = 1 /\ ~targets.all => command.options.provider # "all"
  <2> HIDE DEF command
  <2> QED
    BY DEF Means
<1> HIDE DEF words
<1>4. ASSUME targets.all \/ Cardinality(targets.ids) # 1,
             words = StatusWords(cache)
      PROVE  Means(command, intent)
  <2>1. words # <<>> /\ words[1] = "status" /\ Tail(words) = SharedClauses(cache)
    BY <1>4, StatusWordsTail
  <2>2. command = ParseStatus(Tail(words))
    BY <2>1, ParseByWord
  <2> HIDE DEF command
  <2>3. /\ command.verb = "status"
        /\ command.options["format"] = "json"
        /\ command.options["cache"] = cache
        /\ command.options["notifications"] = "evaluate"
        /\ command.options["provider"] = "all"
    BY <2>1, <2>2, SharedClausesAreRead
  <2> QED
    BY <1>2, <1>3, <1>4, <2>3
<1>5. ASSUME NEW id \in Catalog, ~targets.all, targets.ids = {id},
             words = NamedStatusWords(cache, id)
      PROVE  Means(command, intent)
  <2>1. words # <<>> /\ words[1] = "status" /\ Tail(words) = NamedClauses(cache, id)
    BY <1>5, NamedStatusWordsTail
  <2>2. command = ParseStatus(Tail(words))
    BY <2>1, ParseByWord
  <2> HIDE DEF command
  <2>3. /\ command.verb = "status"
        /\ command.options["format"] = "json"
        /\ command.options["cache"] = cache
        /\ command.options["notifications"] = "evaluate"
        /\ command.options["provider"] = id
    <3>1. id \in Catalog /\ cache \in {"use", "bypass"}
      BY <1>2, <1>5
    <3>2. command = ParseStatus(NamedClauses(cache, id))
      BY <2>1, <2>2
    <3> HIDE DEF targets
    <3> QED
      BY <3>1, <3>2, NamedClausesAreRead
  <2> QED
    BY <1>2, <1>3, <1>5, <2>3, CatalogNames
<1> HIDE DEF command
<1>6. ASSUME words = StatusWords(cache), targets.all \/ Cardinality(targets.ids) # 1
      PROVE  Means(command, intent)
  BY <1>4, <1>6
<1>7. ASSUME ~targets.all, \E id \in Catalog : targets.ids = {id} /\ words = NamedStatusWords(cache, id)
      PROVE  Means(command, intent)
  <2>1. PICK id \in Catalog : targets.ids = {id} /\ words = NamedStatusWords(cache, id)
    BY <1>7
  <2> QED
    BY <1>5, <1>7, <2>1
<1>8. Means(command, intent)
  BY <1>2, <1>6, <1>7
<1> QED
  BY <1>8 DEF command, words

\* And every other argument list of the plugin.
LEMMA OthersMean ==
  ASSUME NEW intent, Intended(intent), intent.kind # "status"
  PROVE  Means(Parse(Argv(intent)), intent)
<1> DEFINE words == Argv(intent)
<1>1. ASSUME intent.kind = "login", intent.provider \in Catalog PROVE Means(Parse(words), intent)
  <2>1. words = <<"login", intent.provider>>
    BY <1>1, ArgvOf
  <2> HIDE DEF words
  <2>2. words # <<>> /\ words[1] = "login" /\ Tail(words) = <<intent.provider>>
    BY <2>1
  <2>3. ParseLogin(<<intent.provider>>) = [verb |-> "login", provider |-> intent.provider]
    BY <1>1 DEF ParseLogin
  <2>4. Parse(words) = [verb |-> "login", provider |-> intent.provider]
    BY <2>2, <2>3, ParseByWord
  <2> QED
    BY <1>1, <2>4, MeansOf
<1>2. ASSUME intent.kind = "reset", intent.id \notin Dashed PROVE Means(Parse(words), intent)
  <2>1. words = <<"reset", "claude", intent.id>>
    BY <1>2, ArgvOf
  <2> HIDE DEF words
  <2>2. words # <<>> /\ words[1] = "reset" /\ Tail(words) = <<"claude", intent.id>>
    BY <2>1
  <2>3. ParseReset(<<"claude", intent.id>>) = [verb |-> "reset", id |-> intent.id]
    BY <1>2 DEF ParseReset
  <2>4. Parse(words) = [verb |-> "reset", id |-> intent.id]
    BY <2>2, <2>3, ParseByWord
  <2> QED
    BY <1>2, <2>4, MeansOf
<1>3. ASSUME intent.kind = "show" PROVE Means(Parse(words), intent)
  <2>1. words = <<"config", "show">>
    BY <1>3, ArgvOf
  <2> HIDE DEF words
  <2>2. words # <<>> /\ words[1] = "config" /\ Tail(words) = <<"show">>
    BY <2>1
  <2>3. ParseConfig(<<"show">>) = Only("config show")
    BY <1>3 DEF ParseConfig
  <2>4. Parse(words) = Only("config show")
    BY <2>2, <2>3, ParseByWord
  <2> QED
    BY <1>3, <2>4, MeansOf
<1>4. ASSUME intent.kind = "apply" PROVE Means(Parse(words), intent)
  <2>1. words = <<"config", "apply", "stdin">>
    BY <1>4, ArgvOf
  <2> HIDE DEF words
  <2>2. words # <<>> /\ words[1] = "config" /\ Tail(words) = <<"apply", "stdin">>
    BY <2>1
  <2>3. ParseConfig(<<"apply", "stdin">>) = [verb |-> "config apply", from |-> "stdin"]
    BY <1>4 DEF ParseConfig
  <2>4. Parse(words) = [verb |-> "config apply", from |-> "stdin"]
    BY <2>2, <2>3, ParseByWord
  <2> QED
    BY <1>4, <2>4, MeansOf
<1>5. ASSUME intent.kind = "check" PROVE Means(Parse(words), intent)
  <2>1. words = <<"update", "check">>
    BY <1>5, ArgvOf
  <2> HIDE DEF words
  <2>2. words # <<>> /\ words[1] = "update" /\ Tail(words) = <<"check">>
    BY <2>1
  <2>3. ParseUpdate(<<"check">>) = Only("update check")
    BY <1>5 DEF ParseUpdate
  <2>4. Parse(words) = Only("update check")
    BY <2>2, <2>3, ParseByWord
  <2> QED
    BY <1>5, <2>4, MeansOf
<1>6. ASSUME intent.kind = "update" PROVE Means(Parse(words), intent)
  <2>1. words = <<"update", "apply">>
    BY <1>6, ArgvOf
  <2> HIDE DEF words
  <2>2. words # <<>> /\ words[1] = "update" /\ Tail(words) = <<"apply">>
    BY <2>1
  <2>3. ParseUpdate(<<"apply">>) = Only("update apply")
    BY <1>6 DEF ParseUpdate
  <2>4. Parse(words) = Only("update apply")
    BY <2>2, <2>3, ParseByWord
  <2> QED
    BY <1>6, <2>4, MeansOf
<1>7. ASSUME intent.kind = "progress" PROVE Means(Parse(words), intent)
  <2>1. words = <<"update", "status">>
    BY <1>7, ArgvOf
  <2> HIDE DEF words
  <2>2. words # <<>> /\ words[1] = "update" /\ Tail(words) = <<"status">>
    BY <2>1
  <2>3. ParseUpdate(<<"status">>) = Only("update status")
    BY <1>7 DEF ParseUpdate
  <2>4. Parse(words) = Only("update status")
    BY <2>2, <2>3, ParseByWord
  <2> QED
    BY <1>7, <2>4, MeansOf
<1>8. ASSUME intent.kind = "uninstall", intent.purge = TRUE PROVE Means(Parse(words), intent)
  <2>1. words = <<"uninstall", "purge">>
    BY <1>8, ArgvOf
  <2> HIDE DEF words
  <2>2. words # <<>> /\ words[1] = "uninstall" /\ Tail(words) = <<"purge">>
    BY <2>1
  <2>3. ParseUninstall(<<"purge">>) = [verb |-> "uninstall", purge |-> intent.purge]
    BY <1>8 DEF ParseUninstall
  <2>4. Parse(words) = [verb |-> "uninstall", purge |-> intent.purge]
    BY <2>2, <2>3, ParseByWord
  <2> QED
    BY <1>8, <2>4, MeansOf
<1>9. ASSUME intent.kind = "uninstall", intent.purge = FALSE PROVE Means(Parse(words), intent)
  <2>1. words = <<"uninstall">>
    BY <1>9, ArgvOf
  <2> HIDE DEF words
  <2>2. words # <<>> /\ words[1] = "uninstall" /\ Tail(words) = <<>>
    BY <2>1
  <2>3. ParseUninstall(<<>>) = [verb |-> "uninstall", purge |-> intent.purge]
    BY <1>9 DEF ParseUninstall
  <2>4. Parse(words) = [verb |-> "uninstall", purge |-> intent.purge]
    BY <2>2, <2>3, ParseByWord
  <2> QED
    BY <1>9, <2>4, MeansOf
<1> QED
  BY <1>1, <1>2, <1>3, <1>4, <1>5, <1>6, <1>7, <1>8, <1>9 DEF Intended

\* The helper reads every argument list of the plugin's as what the plugin meant.
LEMMA IntentMeans ==
  ASSUME NEW intent, Intended(intent)
  PROVE  Means(Parse(Argv(intent)), intent)
<1>1. CASE intent.kind = "status"
  <2>1. intent.targets.all \in BOOLEAN /\ intent.targets.ids \subseteq Catalog
    BY <1>1 DEF Intended
  <2> QED
    BY <1>1, <2>1, StatusMeans
<1>2. CASE intent.kind # "status"
  BY <1>2, OthersMean
<1> QED
  BY <1>1, <1>2

LEMMA ApplyVerb ==
  ASSUME NEW command, command = [verb |-> "config apply", from |-> "stdin"]
  PROVE  command.verb = "config apply"
OBVIOUS

LEMMA UninstallMeans ==
  ASSUME NEW intent, NEW command, Intended(intent), command = Parse(Argv(intent)), command.verb = "uninstall"
  PROVE  command.purge = intent.purge
<1>1. Means(command, intent)
  BY IntentMeans
<1>2. intent.kind = "status" => command.verb = "status"
  BY <1>1 DEF Means
<1>3. CASE intent.kind = "status"
  BY <1>2, <1>3
<1>4. CASE intent.kind = "uninstall"
  <2>1. command = [verb |-> "uninstall", purge |-> intent.purge]
    BY <1>1, <1>4, MeansOf
  <2> QED
    BY <2>1
<1>5. CASE intent.kind = "login"
  <2>1. command = [verb |-> "login", provider |-> intent.provider]
    BY <1>1, <1>5, MeansOf
  <2> QED
    BY <2>1
<1>6. CASE intent.kind = "reset"
  <2>1. command = [verb |-> "reset", id |-> intent.id]
    BY <1>1, <1>6, MeansOf
  <2> QED
    BY <2>1
<1>7. CASE intent.kind = "apply"
  <2>1. command = [verb |-> "config apply", from |-> "stdin"]
    BY <1>1, <1>7, MeansOf
  <2>2. command.verb = "config apply"
    BY <2>1, ApplyVerb
  <2> QED
    BY <2>2
<1>8. CASE intent.kind \in {"show", "check", "update", "progress"}
  <2>1. \E verb \in {"config show", "update check", "update apply", "update status"} : command = Only(verb)
    BY <1>1, <1>8, MeansOf
  <2> QED
    BY <2>1 DEF Only
<1> QED
  BY <1>3, <1>4, <1>5, <1>6, <1>7, <1>8 DEF Intended

\* What a process was asked for, and what an uninstall that removes data was told.
Understood(p) ==
  /\ Asked(p)
  /\ p.pc \in {"purgeSettings", "purgeCache", "purgeState"} => p.command.purge
  /\ p.pc \in {"purgeSettings", "purgeCache", "release", "purgeState"} => Confirmed(p.input, p.command.purge)

AllUnderstood == \A h \in Helpers : Understood(helper[h])

LEMMA FreshUnderstood == ASSUME NEW p, p.intent = None, p.pc = "idle" PROVE Understood(p)
BY DEF Understood, Asked

LEMMA InitUnderstood == Init => AllUnderstood
BY FreshFits, FreshUnderstood DEF Init, AllUnderstood

LEMMA BystanderUnderstood ==
  ASSUME NEW p, NEW q, Bystander(p, q), Understood(p)
  PROVE  Understood(q)
BY DEF Bystander, SameCommand, SameTalk, Understood, Asked

LEMMA SameAsked ==
  ASSUME NEW p, NEW q, SameCommand(p, q), Asked(p)
  PROVE  Asked(q)
BY DEF SameCommand, Asked

LEMMA NextUnderstood == Control /\ AllUnderstood /\ [Next]_vars => AllUnderstood'
<1> SUFFICES ASSUME Control, AllUnderstood, [Next]_vars PROVE AllUnderstood'
  OBVIOUS
<1>1. ASSUME NEW h \in Helpers, Launches(h) PROVE AllUnderstood'
  <2>1. Understood(helper'[h])
    <3>1. Asked(helper'[h]) /\ helper'[h].pc \in {"open", "check", "done"}
      BY <1>1 DEF Launches
    <3> QED
      BY <3>1 DEF Understood
  <2>2. \A o \in Helpers \ {h} : Understood(helper'[o])
    BY <1>1, BystanderUnderstood DEF Launches, AllUnderstood, Moves, Advances, AdvancesOnly
  <2> QED
    BY <2>1, <2>2 DEF AllUnderstood
<1>2. ASSUME NEW h \in Helpers, Vanishes(h) PROVE AllUnderstood'
  <2>1. Understood(helper'[h])
    BY <1>2, FreshUnderstood DEF Vanishes
  <2>2. \A o \in Helpers \ {h} : Understood(helper'[o])
    BY <1>2, BystanderUnderstood DEF Vanishes, AllUnderstood, Moves, Advances, AdvancesOnly
  <2> QED
    BY <2>1, <2>2 DEF AllUnderstood
<1>3. ASSUME NEW h \in Helpers, Leaves(h) PROVE AllUnderstood'
  <2>1. Understood(helper'[h])
    <3>1. SameCommand(helper[h], helper'[h]) /\ helper'[h].pc = "done"
      BY <1>3 DEF Leaves, Ends
    <3>2. Asked(helper'[h])
      BY <3>1, SameAsked DEF AllUnderstood, Understood
    <3> QED
      BY <3>1, <3>2 DEF Understood
  <2>2. \A o \in Helpers \ {h} : Understood(helper'[o])
    BY <1>3, BystanderUnderstood DEF Leaves, AllUnderstood, Moves, Advances, AdvancesOnly
  <2> QED
    BY <2>1, <2>2 DEF AllUnderstood
<1>4. ASSUME NEW h \in Helpers, Checks(h) PROVE AllUnderstood'
  <2>1. Understood(helper'[h])
    <3>1. SameCommand(helper[h], helper'[h]) /\ helper'[h].pc = "done"
      BY <1>4 DEF Checks, Ends
    <3>2. Asked(helper'[h])
      BY <3>1, SameAsked DEF AllUnderstood, Understood
    <3> QED
      BY <3>1, <3>2 DEF Understood
  <2>2. \A o \in Helpers \ {h} : Understood(helper'[o])
    BY <1>4, BystanderUnderstood DEF Checks, AllUnderstood, Moves, Advances, AdvancesOnly
  <2> QED
    BY <2>1, <2>2 DEF AllUnderstood
<1>5. ASSUME NEW h \in Helpers, Opens(h) PROVE AllUnderstood'
  <2>1. Understood(helper'[h])
    <3>1. SameCommand(helper[h], helper'[h])
      BY <1>5 DEF Opens, Advances, AdvancesOnly, Ends
    <3>2. Asked(helper'[h])
      BY <3>1, SameAsked DEF AllUnderstood, Understood
    <3> QED
      BY <1>5, <3>1, <3>2 DEF Opens, AllUnderstood, Understood, Advances, AdvancesOnly, Ends, SameCommand,
         SameTalk
  <2>2. \A o \in Helpers \ {h} : Understood(helper'[o])
    BY <1>5, BystanderUnderstood DEF Opens, AllUnderstood, Moves, Advances, AdvancesOnly
  <2> QED
    BY <2>1, <2>2 DEF AllUnderstood
<1>6. ASSUME NEW h \in Helpers, Binds(h) PROVE AllUnderstood'
  <2>1. Understood(helper'[h])
    <3>1. SameCommand(helper[h], helper'[h])
      BY <1>6 DEF Binds, Advances, AdvancesOnly, Ends
    <3>2. Asked(helper'[h])
      BY <3>1, SameAsked DEF AllUnderstood, Understood
    <3> QED
      BY <1>6, <3>1, <3>2 DEF Binds, AllUnderstood, Understood, Advances, AdvancesOnly, Ends, SameCommand,
         SameTalk
  <2>2. \A o \in Helpers \ {h} : Understood(helper'[o])
    BY <1>6, BystanderUnderstood DEF Binds, AllUnderstood, Moves, Advances, AdvancesOnly
  <2> QED
    BY <2>1, <2>2 DEF AllUnderstood
<1>7. ASSUME NEW h \in Helpers, Acquires(h) PROVE AllUnderstood'
  <2>1. Understood(helper'[h])
    <3>1. SameCommand(helper[h], helper'[h])
      BY <1>7 DEF Acquires, Advances, AdvancesOnly, Ends
    <3>2. Asked(helper'[h])
      BY <3>1, SameAsked DEF AllUnderstood, Understood
    <3> QED
      BY <1>7, <3>1, <3>2 DEF Acquires, AllUnderstood, Understood, Advances, AdvancesOnly, Ends, SameCommand,
         SameTalk
  <2>2. \A o \in Helpers \ {h} : Understood(helper'[o])
    BY <1>7, BystanderUnderstood DEF Acquires, AllUnderstood, Moves, Advances, AdvancesOnly
  <2> QED
    BY <2>1, <2>2 DEF AllUnderstood
<1>8. ASSUME NEW h \in Helpers, Reads(h) PROVE AllUnderstood'
  <2>1. Understood(helper'[h])
    <3>1. SameCommand(helper[h], helper'[h])
      BY <1>8 DEF Reads, Advances, AdvancesOnly, Ends
    <3>2. Asked(helper'[h])
      BY <3>1, SameAsked DEF AllUnderstood, Understood
    <3> QED
      BY <1>8, <3>1, <3>2 DEF Reads, AllUnderstood, Understood, Advances, AdvancesOnly, Ends, SameCommand,
         SameTalk
  <2>2. \A o \in Helpers \ {h} : Understood(helper'[o])
    BY <1>8, BystanderUnderstood DEF Reads, AllUnderstood, Moves, Advances, AdvancesOnly
  <2> QED
    BY <2>1, <2>2 DEF AllUnderstood
<1>9. ASSUME NEW h \in Helpers, Writes(h) PROVE AllUnderstood'
  <2>1. Understood(helper'[h])
    <3>1. SameCommand(helper[h], helper'[h])
      BY <1>9 DEF Writes, Advances, AdvancesOnly, Ends
    <3>2. Asked(helper'[h])
      BY <3>1, SameAsked DEF AllUnderstood, Understood
    <3> QED
      BY <1>9, <3>1, <3>2 DEF Writes, AllUnderstood, Understood, Advances, AdvancesOnly, Ends, SameCommand,
         SameTalk
  <2>2. \A o \in Helpers \ {h} : Understood(helper'[o])
    BY <1>9, BystanderUnderstood DEF Writes, AllUnderstood, Moves, Advances, AdvancesOnly
  <2> QED
    BY <2>1, <2>2 DEF AllUnderstood
<1>10. ASSUME NEW h \in Helpers, Renames(h) PROVE AllUnderstood'
  <2>1. Understood(helper'[h])
    <3>1. SameCommand(helper[h], helper'[h])
      BY <1>10 DEF Renames, Advances, AdvancesOnly, Ends
    <3>2. Asked(helper'[h])
      BY <3>1, SameAsked DEF AllUnderstood, Understood
    <3> QED
      BY <1>10, <3>1, <3>2 DEF Renames, AllUnderstood, Understood, Advances, AdvancesOnly, Ends, SameCommand,
         SameTalk
  <2>2. \A o \in Helpers \ {h} : Understood(helper'[o])
    BY <1>10, BystanderUnderstood DEF Renames, AllUnderstood, Moves, Advances, AdvancesOnly
  <2> QED
    BY <2>1, <2>2 DEF AllUnderstood
<1>11. ASSUME NEW h \in Helpers, Saves(h) PROVE AllUnderstood'
  <2>1. Understood(helper'[h])
    <3>1. SameCommand(helper[h], helper'[h]) /\ helper'[h].pc = "done"
      BY <1>11 DEF Saves, Ends
    <3>2. Asked(helper'[h])
      BY <3>1, SameAsked DEF AllUnderstood, Understood
    <3> QED
      BY <3>1, <3>2 DEF Understood
  <2>2. \A o \in Helpers \ {h} : Understood(helper'[o])
    BY <1>11, BystanderUnderstood DEF Saves, AllUnderstood, Moves, Advances, AdvancesOnly
  <2> QED
    BY <2>1, <2>2 DEF AllUnderstood
<1>12. ASSUME NEW h \in Helpers, Goes(h) PROVE AllUnderstood'
  <2>1. Understood(helper'[h])
    <3>1. SameCommand(helper[h], helper'[h])
      BY <1>12 DEF Goes, Advances, AdvancesOnly, Ends
    <3>2. Asked(helper'[h])
      BY <3>1, SameAsked DEF AllUnderstood, Understood
    <3> QED
      BY <1>12, <3>1, <3>2 DEF Goes, AllUnderstood, Understood, Advances, AdvancesOnly, Ends, SameCommand,
         SameTalk
  <2>2. \A o \in Helpers \ {h} : Understood(helper'[o])
    BY <1>12, BystanderUnderstood DEF Goes, AllUnderstood, Moves, Advances, AdvancesOnly
  <2> QED
    BY <2>1, <2>2 DEF AllUnderstood
<1>13. ASSUME NEW h \in Helpers, Confirms(h) PROVE AllUnderstood'
  <2>1. Understood(helper'[h])
    <3>1. SameCommand(helper[h], helper'[h])
      BY <1>13 DEF Confirms, Advances, AdvancesOnly, Ends
    <3>2. Asked(helper'[h])
      BY <3>1, SameAsked DEF AllUnderstood, Understood
    <3> QED
      BY <1>13, <3>1, <3>2 DEF Confirms, AllUnderstood, Understood, Advances, AdvancesOnly, Ends, SameCommand,
         SameTalk
  <2>2. \A o \in Helpers \ {h} : Understood(helper'[o])
    BY <1>13, BystanderUnderstood DEF Confirms, AllUnderstood, Moves, Advances, AdvancesOnly
  <2> QED
    BY <2>1, <2>2 DEF AllUnderstood
<1>14. ASSUME NEW h \in Helpers, Purges(h) PROVE AllUnderstood'
  <2>1. Understood(helper'[h])
    <3>1. SameCommand(helper[h], helper'[h])
      BY <1>14 DEF Purges, Advances, AdvancesOnly, Ends
    <3>2. Asked(helper'[h])
      BY <3>1, SameAsked DEF AllUnderstood, Understood
    <3> QED
      BY <1>14, <3>1, <3>2 DEF Purges, AllUnderstood, Understood, Advances, AdvancesOnly, Ends, SameCommand,
         SameTalk
  <2>2. \A o \in Helpers \ {h} : Understood(helper'[o])
    BY <1>14, BystanderUnderstood DEF Purges, AllUnderstood, Moves, Advances, AdvancesOnly
  <2> QED
    BY <2>1, <2>2 DEF AllUnderstood
<1>15. ASSUME NEW h \in Helpers, Releases(h) PROVE AllUnderstood'
  <2>1. Understood(helper'[h])
    <3>1. SameCommand(helper[h], helper'[h])
      BY <1>15 DEF Releases, Advances, AdvancesOnly, Ends
    <3>2. Asked(helper'[h])
      BY <3>1, SameAsked DEF AllUnderstood, Understood
    <3> QED
      BY <1>15, <3>1, <3>2 DEF Releases, AllUnderstood, Understood, Advances, AdvancesOnly, Ends, SameCommand,
         SameTalk
  <2>2. \A o \in Helpers \ {h} : Understood(helper'[o])
    BY <1>15, BystanderUnderstood DEF Releases, AllUnderstood, Moves, Advances, AdvancesOnly
  <2> QED
    BY <2>1, <2>2 DEF AllUnderstood
<1>16. ASSUME NEW h \in Helpers, Unlinks(h) PROVE AllUnderstood'
  <2>1. Understood(helper'[h])
    <3>1. SameCommand(helper[h], helper'[h])
      BY <1>16 DEF Unlinks, Advances, AdvancesOnly, Ends
    <3>2. Asked(helper'[h])
      BY <3>1, SameAsked DEF AllUnderstood, Understood
    <3> QED
      BY <1>16, <3>1, <3>2 DEF Unlinks, AllUnderstood, Understood, Advances, AdvancesOnly, Ends, SameCommand,
         SameTalk
  <2>2. \A o \in Helpers \ {h} : Understood(helper'[o])
    BY <1>16, BystanderUnderstood DEF Unlinks, AllUnderstood, Moves, Advances, AdvancesOnly
  <2> QED
    BY <2>1, <2>2 DEF AllUnderstood
<1>17. CASE PowerLoss
  BY <1>17, LostControl, FreshFits, FreshUnderstood DEF AllUnderstood
<1>18. CASE UNCHANGED vars
  BY <1>18 DEF vars, Understood, Asked, AllUnderstood
<1>19. LocalPastGate
  BY DEF Control, Fitting, Fits, LocalPastGate
<1> QED
  BY StepCases, <1>1, <1>2, <1>3, <1>4, <1>5, <1>6, <1>7, <1>8, <1>9, <1>10, <1>11, <1>12, <1>13, <1>14, <1>15,
     <1>16, <1>17, <1>18, <1>19 DEF Control

\* The helper takes every argument list the plugin builds for what the plugin
\* meant, whatever set of intents it may have, and removes data only for an
\* answer that names the purge, or for the phrase typed after a command that
\* does (grammar.rs, statusArgv(), confirm_uninstall()).
THEOREM IntentsAreUnderstoodHolds == Spec => []IntentsAreUnderstood
<1>1. ASSUME Control, AllUnderstood PROVE IntentsAreUnderstood
  <2>1. SUFFICES ASSUME NEW h \in Helpers
                 PROVE  /\ helper[h].intent # None => Means(helper[h].command, helper[h].intent)
                        /\ Purging(h) => /\ helper[h].command.purge
                                         /\ helper[h].input.tty \/ helper[h].input.text.purge
                                         /\ helper[h].intent # None => helper[h].intent.purge
    BY DEF IntentsAreUnderstood
  <2>2. Understood(helper[h]) /\ Fits(helper[h])
    BY <1>1 DEF AllUnderstood, Control, Fitting
  <2>3. ASSUME helper[h].intent # None
        PROVE  Intended(helper[h].intent) /\ helper[h].command = Parse(Argv(helper[h].intent))
    BY <2>2, <2>3, IntentAssumption DEF Understood, Asked
  <2>4. helper[h].intent # None => Means(helper[h].command, helper[h].intent)
    BY <2>3, IntentMeans
  <2>5. ASSUME Purging(h)
        PROVE  /\ helper[h].command.purge /\ helper[h].command.verb = "uninstall"
               /\ Confirmed(helper[h].input, helper[h].command.purge)
    BY <2>2, <2>5 DEF Understood, Fits, Purging, LockedSteps
  <2>6. ASSUME Purging(h) PROVE helper[h].input.tty \/ helper[h].input.text.purge
    <3>1. CASE helper[h].input.tty
      BY <3>1
    <3>2. CASE ~helper[h].input.tty
      <4>1. helper[h].input.text = [operation |-> "uninstall", confirmed |-> TRUE, purge |-> helper[h].command.purge]
        BY <2>5, <2>6, <3>2 DEF Confirmed, Confirmation
      <4>2. helper[h].input.text.purge = helper[h].command.purge
        BY <4>1
      <4> QED
        BY <2>5, <2>6, <4>2
    <3> QED
      BY <3>1, <3>2
  <2>7. ASSUME Purging(h), helper[h].intent # None PROVE helper[h].intent.purge
    BY <2>3, <2>5, <2>7, UninstallMeans
  <2> QED
    BY <2>4, <2>5, <2>6, <2>7
<1> QED
  BY <1>1, InitControl, NextControl, InitUnderstood, NextUnderstood, PTL DEF Spec

---------------------------------------------------------------------------
(* Induction, for the members of a set of sets and of a set of numbers.    *)
\* Induction on finite sets, for the members of a set of sets.
LEMMA FiniteInduction ==
  ASSUME NEW S, IsFiniteSet(S), NEW G,
         \A X \in SUBSET S : (\A x \in X : X \ {x} \in G) => X \in G
  PROVE  S \in G
<1> DEFINE Bad == {X \in SUBSET S : X \notin G}
<1>1. IsWellFoundedOn(StrictSubsetOrdering(S), SUBSET S)
  BY FS_StrictSubsetOrderingWellFounded, FS_FiniteSubsetsOfFinite
<1>2. SUFFICES ASSUME S \notin G PROVE FALSE
  OBVIOUS
<1>3. Bad \subseteq SUBSET S /\ Bad # {}
  BY <1>2
<1>4. PICK X \in Bad : \A Y \in Bad : <<Y, X>> \notin StrictSubsetOrdering(S)
  <2> HIDE DEF Bad
  <2> QED
    BY <1>1, <1>3, WFMin
<1>5. X \in SUBSET S /\ X \notin G
  OBVIOUS
<1>6. PICK x \in X : X \ {x} \notin G
  BY <1>5
<1>7. X \ {x} \in Bad
  BY <1>5, <1>6
<1>8. <<X \ {x}, X>> \in StrictSubsetOrdering(S)
  BY <1>5, <1>6 DEF StrictSubsetOrdering
<1> QED
  BY <1>4, <1>7, <1>8

\* Induction on the numbers up to n, for the members of a set of numbers.
LEMMA CountedInduction ==
  ASSUME NEW n \in Nat, NEW G, 0 \in G, \A i \in Nat : i < n /\ i \in G => i + 1 \in G
  PROVE  n \in G
<1> DEFINE H == {X \in SUBSET (1..n) : \A m \in 0..n : X = 1..m => m \in G}
<1>1. IsFiniteSet(1..n)
  BY FS_Interval
<1>2. ASSUME NEW X \in SUBSET (1..n), \A x \in X : X \ {x} \in H PROVE X \in H
  <2>1. SUFFICES ASSUME NEW m \in 0..n, X = 1..m PROVE m \in G
    OBVIOUS
  <2>2. CASE m = 0
    BY <2>2
  <2>3. CASE m # 0
    <3>1. m \in X /\ X \ {m} = 1..(m - 1) /\ m - 1 \in 0..n
      BY <2>1, <2>3
    <3>2. m - 1 \in G
      BY <1>2, <3>1
    <3> QED
      BY <2>1, <2>3, <3>1, <3>2
  <2> QED
    BY <2>2, <2>3
<1>3. 1..n \in H
  <2> HIDE DEF H
  <2> QED
    BY <1>1, <1>2, FiniteInduction
<1> QED
  BY <1>3

---------------------------------------------------------------------------
(* FlattenSeq, of lists of which each has one element or none.             *)

\* The first k of some lists joined, for every k.
Joins(f, n, lists) == f = [i \in 1..n |-> IF i = 1 THEN lists[i] ELSE f[i - 1] \o lists[i]]

LEMMA JoinsExist ==
  ASSUME NEW n \in Nat, NEW lists
  PROVE  \E f : Joins(f, n, lists)
<1> DEFINE G == {k \in Nat : \E f : Joins(f, k, lists)}
<1>1. 0 \in G
  <2>1. Joins([i \in 1..0 |-> 0], 0, lists)
    BY DEF Joins
  <2> QED
    BY <2>1
<1>2. ASSUME NEW k \in Nat, k \in G PROVE k + 1 \in G
  <2>1. PICK f : Joins(f, k, lists)
    BY <1>2
  <2>2. PICK g : g = [i \in 1..(k + 1) |-> IF i = 1 THEN lists[i] ELSE f[i - 1] \o lists[i]]
    OBVIOUS
  <2>3. ASSUME NEW i \in 1..k PROVE g[i] = f[i]
    <3>1. i \in 1..(k + 1)
      OBVIOUS
    <3>2. g[i] = IF i = 1 THEN lists[i] ELSE f[i - 1] \o lists[i]
      BY <2>2, <3>1
    <3>3. f[i] = IF i = 1 THEN lists[i] ELSE f[i - 1] \o lists[i]
      BY <2>1 DEF Joins
    <3> QED
      BY <3>2, <3>3
  <2>4. \A i \in 1..(k + 1) : i # 1 => i - 1 \in 1..k
    OBVIOUS
  <2>5. Joins(g, k + 1, lists)
    BY <2>2, <2>3, <2>4 DEF Joins
  <2> QED
    BY <2>5
<1>3. n \in G
  <2> HIDE DEF G
  <2> QED
    BY <1>1, <1>2, CountedInduction
<1> QED
  BY <1>3

LEMMA FlattenJoins ==
  ASSUME NEW S, NEW lists \in Seq(Seq(S)), lists # <<>>
  PROVE  \E f : Joins(f, Len(lists), lists) /\ FlattenSeq(lists) = f[Len(lists)]
<1>1. Len(lists) \in Nat \ {0}
  OBVIOUS
<1>2. \E f : Joins(f, Len(lists), lists)
  BY <1>1, JoinsExist
<1>3. PICK f : f = CHOOSE g : Joins(g, Len(lists), lists)
  OBVIOUS
<1>4. Joins(f, Len(lists), lists)
  BY <1>2, <1>3
<1>5. FlattenSeq(lists) = f[Len(lists)]
  BY <1>1, <1>3 DEF FlattenSeq, Joins
<1> QED
  BY <1>4, <1>5

\* What is in a list of optional things joined: `at' says which of them each
\* entry is.
Picked(flat, lists, k, at) ==
  /\ at \in [1..Len(flat) -> 1..k]
  /\ \A p \in 1..Len(flat) : lists[at[p]] = <<flat[p]>>
  /\ \A p, q \in 1..Len(flat) : p < q => at[p] < at[q]
  /\ \A i \in 1..k : lists[i] # <<>> => \E p \in 1..Len(flat) : at[p] = i

LEMMA JoinsStep ==
  ASSUME NEW n \in Nat, NEW lists, NEW f, Joins(f, n, lists), NEW k \in Nat, k + 1 \in 1..n
  PROVE  f[k + 1] = IF k = 0 THEN lists[k + 1] ELSE f[k] \o lists[k + 1]
<1>1. ASSUME NEW i \in 1..n PROVE f[i] = IF i = 1 THEN lists[i] ELSE f[i - 1] \o lists[i]
  BY DEF Joins
<1>2. f[k + 1] = IF k + 1 = 1 THEN lists[k + 1] ELSE f[k + 1 - 1] \o lists[k + 1]
  BY <1>1
<1>3. k + 1 - 1 = k /\ (k + 1 = 1 <=> k = 0)
  OBVIOUS
<1> QED
  BY <1>2, <1>3

LEMMA JoinedAreSequences ==
  ASSUME NEW S, NEW lists \in Seq(Seq(S)), NEW f, Joins(f, Len(lists), lists)
  PROVE  \A k \in 1..Len(lists) : f[k] \in Seq(S)
<1> DEFINE G == {k \in Nat : k \in 1..Len(lists) => f[k] \in Seq(S)}
<1>1. ASSUME NEW k \in Nat, k \in G PROVE k + 1 \in G
  <2>1. SUFFICES ASSUME k + 1 \in 1..Len(lists) PROVE f[k + 1] \in Seq(S)
    OBVIOUS
  <2>2. f[k + 1] = IF k = 0 THEN lists[k + 1] ELSE f[k] \o lists[k + 1]
    BY <2>1, JoinsStep
  <2>3. lists[k + 1] \in Seq(S)
    BY <2>1
  <2>4. CASE k = 0
    BY <2>2, <2>3, <2>4
  <2>5. CASE k # 0
    <3>1. f[k] \in Seq(S)
      BY <1>1, <2>1, <2>5
    <3>2. f[k + 1] = f[k] \o lists[k + 1]
      BY <2>2, <2>5
    <3> QED
      BY <2>3, <3>1, <3>2
  <2> QED
    BY <2>4, <2>5
<1>2. 0 \in G
  OBVIOUS
<1>3. ASSUME NEW k \in 1..Len(lists) PROVE k \in G
  <2> HIDE DEF G
  <2> QED
    BY <1>1, <1>2, CountedInduction
<1> QED
  BY <1>3

LEMMA FlattenIsASequence ==
  ASSUME NEW S, NEW lists \in Seq(Seq(S))
  PROVE  FlattenSeq(lists) \in Seq(S)
<1>1. CASE lists = <<>>
  BY <1>1 DEF FlattenSeq
<1>2. CASE lists # <<>>
  <2>1. PICK f : Joins(f, Len(lists), lists) /\ FlattenSeq(lists) = f[Len(lists)]
    BY <1>2, FlattenJoins
  <2>2. Len(lists) \in 1..Len(lists)
    BY <1>2
  <2> QED
    BY <2>1, <2>2, JoinedAreSequences
<1> QED
  BY <1>1, <1>2

\* One more option joined to those picked so far.
LEMMA PicksGrow ==
  ASSUME NEW S, NEW flat \in Seq(S), NEW option \in Seq(S), Len(option) <= 1,
         NEW k \in Nat, NEW lists, lists[k + 1] = option, NEW at, Picked(flat, lists, k, at)
  PROVE  \E more : Picked(flat \o option, lists, k + 1, more)
<1>1. CASE option = <<>>
  <2>1. flat \o option = flat
    BY <1>1
  <2>2. Picked(flat, lists, k + 1, at)
    BY <1>1 DEF Picked
  <2> QED
    BY <2>1, <2>2
<1>2. CASE option # <<>>
  <2>1. PICK x \in S : option = <<x>>
    <3>1. PICK l \in Nat \ {0} : Len(option) = l
      BY <1>2, EmptySeq
    <3>2. l <= 1
      BY <3>1
    <3>3. l = 1
      BY <3>2
    <3>4. Len(option) = 1
      BY <3>1, <3>3
    <3>5. option[1] \in S
      BY <3>4, ElementOfSeq
    <3>6. option = <<option[1]>>
      BY <3>4, <3>5
    <3> QED
      BY <3>5, <3>6
  <2>2. PICK all \in Seq(S) : all = flat \o option
    <3>1. flat \o option \in Seq(S)
      OBVIOUS
    <3> QED
      BY <3>1
  <2>3. Len(all) = Len(flat) + 1 /\ all[Len(flat) + 1] = x /\ \A p \in 1..Len(flat) : all[p] = flat[p]
    BY <2>1, <2>2
  <2>4. PICK more : more = [p \in 1..Len(all) |-> IF p <= Len(flat) THEN at[p] ELSE k + 1]
    OBVIOUS
  <2>5. /\ \A p \in 1..Len(flat) : p \in 1..Len(all) /\ more[p] = at[p] /\ at[p] \in 1..k
        /\ Len(flat) + 1 \in 1..Len(all) /\ more[Len(flat) + 1] = k + 1
        /\ \A p \in 1..Len(all) : p \in 1..Len(flat) \/ p = Len(flat) + 1
    <3>1. \A p \in 1..Len(all) : more[p] = IF p <= Len(flat) THEN at[p] ELSE k + 1
      BY <2>4
    <3>2. Len(flat) \in Nat /\ at \in [1..Len(flat) -> 1..k]
      BY DEF Picked
    <3>3. Len(flat) + 1 \in 1..Len(all) /\ \A p \in 1..Len(all) : p \in 1..Len(flat) \/ p = Len(flat) + 1
      BY <2>3, <3>2
    <3>4. more[Len(flat) + 1] = k + 1
      BY <3>1, <3>2, <3>3
    <3>5. ASSUME NEW p \in 1..Len(flat)
          PROVE  p \in 1..Len(all) /\ more[p] = at[p] /\ at[p] \in 1..k
      <4>1. p \in 1..Len(all) /\ p <= Len(flat)
        BY <2>3, <3>2
      <4>2. more[p] = at[p]
        BY <3>1, <4>1
      <4>3. at[p] \in 1..k
        BY <3>2
      <4> QED
        BY <4>1, <4>2, <4>3
    <3> QED
      BY <3>3, <3>4, <3>5
  <2>6. more \in [1..Len(all) -> 1..(k + 1)]
    <3>1. ASSUME NEW p \in 1..Len(all) PROVE (IF p <= Len(flat) THEN at[p] ELSE k + 1) \in 1..(k + 1)
      <4>1. CASE p \in 1..Len(flat)
        <5>1. at[p] \in 1..k /\ p <= Len(flat)
          BY <2>5, <4>1
        <5> QED
          BY <5>1
      <4>2. CASE p = Len(flat) + 1
        <5>1. ~(p <= Len(flat))
          BY <4>2
        <5> QED
          BY <5>1
      <4> QED
        BY <2>5, <4>1, <4>2
    <3> QED
      BY <2>4, <3>1
  <2>7. \A p \in 1..Len(all) : lists[more[p]] = <<all[p]>>
    BY <2>1, <2>3, <2>5 DEF Picked
  <2>8. \A p, q \in 1..Len(all) : p < q => more[p] < more[q]
    <3>1. SUFFICES ASSUME NEW p \in 1..Len(all), NEW q \in 1..Len(all), p < q PROVE more[p] < more[q]
      OBVIOUS
    <3>2. p \in 1..Len(flat)
      BY <3>1, <2>3
    <3>3. CASE q \in 1..Len(flat)
      BY <3>1, <3>2, <3>3, <2>5 DEF Picked
    <3>4. CASE q = Len(flat) + 1
      BY <3>2, <3>4, <2>5
    <3> QED
      BY <3>3, <3>4, <2>5
  <2>9. \A i \in 1..(k + 1) : lists[i] # <<>> => \E p \in 1..Len(all) : more[p] = i
    <3>1. ASSUME NEW i \in 1..k, lists[i] # <<>> PROVE \E p \in 1..Len(all) : more[p] = i
      BY <3>1, <2>5 DEF Picked
    <3> QED
      BY <3>1, <2>5
  <2>10. Picked(all, lists, k + 1, more)
    BY <2>6, <2>7, <2>8, <2>9 DEF Picked
  <2> QED
    BY <2>2, <2>10
<1> QED
  BY <1>1, <1>2

\* The options that are there, in their order.
LEMMA FlattenPicks ==
  ASSUME NEW S, NEW lists \in Seq(Seq(S)), \A i \in 1..Len(lists) : Len(lists[i]) <= 1
  PROVE  /\ FlattenSeq(lists) \in Seq(S)
         /\ \E at : Picked(FlattenSeq(lists), lists, Len(lists), at)
<1>0. FlattenSeq(lists) \in Seq(S)
  BY FlattenIsASequence
<1>1. CASE lists = <<>>
  <2>1. FlattenSeq(lists) = <<>>
    BY <1>1 DEF FlattenSeq
  <2>2. PICK at : at = [p \in 1..0 |-> 1]
    OBVIOUS
  <2>3. Picked(<<>>, lists, Len(lists), at)
    BY <1>1, <2>2 DEF Picked
  <2> QED
    BY <1>0, <2>1, <2>3
<1>2. CASE lists # <<>>
  <2>1. PICK f : Joins(f, Len(lists), lists) /\ FlattenSeq(lists) = f[Len(lists)]
    BY <1>2, FlattenJoins
  <2>2. \A k \in 1..Len(lists) : f[k] \in Seq(S)
    BY <2>1, JoinedAreSequences
  <2> DEFINE G == {k \in Nat : k \in 1..Len(lists) => \E at : Picked(f[k], lists, k, at)}
  <2>3. ASSUME NEW k \in Nat, k \in G PROVE k + 1 \in G
    <3>1. SUFFICES ASSUME k + 1 \in 1..Len(lists) PROVE \E at : Picked(f[k + 1], lists, k + 1, at)
      OBVIOUS
    <3>2. f[k + 1] = IF k = 0 THEN lists[k + 1] ELSE f[k] \o lists[k + 1]
      BY <2>1, <3>1, JoinsStep
    <3>3. lists[k + 1] \in Seq(S) /\ Len(lists[k + 1]) <= 1
      BY <3>1
    <3>4. CASE k = 0
      <4>1. PICK at : at = [p \in 1..0 |-> 1]
        OBVIOUS
      <4>2. Picked(<<>>, lists, k, at)
        BY <3>4, <4>1 DEF Picked
      <4>3. f[k + 1] = <<>> \o lists[k + 1]
        BY <3>2, <3>3, <3>4
      <4>4. \E more : Picked(<<>> \o lists[k + 1], lists, k + 1, more)
        <5>1. <<>> \in Seq(S)
          OBVIOUS
        <5> QED
          BY <3>3, <4>2, <5>1, PicksGrow
      <4> QED
        BY <4>3, <4>4
    <3>5. CASE k # 0
      <4>1. k \in 1..Len(lists)
        BY <3>1, <3>5
      <4>2. PICK at : Picked(f[k], lists, k, at)
        BY <2>3, <4>1
      <4>3. f[k] \in Seq(S)
        BY <2>2, <4>1
      <4>4. f[k + 1] = f[k] \o lists[k + 1]
        BY <3>2, <3>5
      <4>5. \E more : Picked(f[k] \o lists[k + 1], lists, k + 1, more)
        BY <3>3, <4>2, <4>3, PicksGrow
      <4> QED
        BY <4>4, <4>5
    <3> QED
      BY <3>4, <3>5
  <2>4. 0 \in G
    OBVIOUS
  <2>5. Len(lists) \in G
    <3> HIDE DEF G
    <3> QED
      BY <2>3, <2>4, CountedInduction
  <2>6. Len(lists) \in 1..Len(lists)
    BY <1>2
  <2> QED
    BY <1>0, <2>1, <2>5, <2>6
<1> QED
  BY <1>1, <1>2

---------------------------------------------------------------------------
(* Settings documents: what parse_with_policy() makes of those that an     *)
(* earlier release may have written.                                       *)

\* A list without the entries that are not kept.
Sieve(list, keep) == [i \in DOMAIN list |-> IF list[i] \in keep THEN <<list[i]>> ELSE <<>>]

Options(lists, list, keep) ==
  /\ lists \in Seq(Seq(keep)) /\ Len(lists) = Len(list)
  /\ \A i \in 1..Len(list) : Len(lists[i]) <= 1
  /\ \A i \in 1..Len(list) : lists[i] = IF list[i] \in keep THEN <<list[i]>> ELSE <<>>

LEMMA SievesAreOptions ==
  ASSUME NEW R, NEW list \in Seq(R), NEW keep \in SUBSET R
  PROVE  \E lists : lists = Sieve(list, keep) /\ Options(lists, list, keep)
<1>1. PICK lists : lists = Sieve(list, keep)
  OBVIOUS
<1>2. list \in [1..Len(list) -> R] /\ DOMAIN list = 1..Len(list) /\ Len(list) \in Nat
  BY LenProperties
<1>3. ASSUME NEW i \in 1..Len(list)
      PROVE  /\ lists[i] = IF list[i] \in keep THEN <<list[i]>> ELSE <<>>
             /\ lists[i] \in Seq(keep) /\ Len(lists[i]) <= 1
  <2>1. lists[i] = IF list[i] \in keep THEN <<list[i]>> ELSE <<>>
    BY <1>1, <1>2, <1>3 DEF Sieve
  <2>2. CASE list[i] \in keep
    <3>1. PICK x \in keep : x = list[i]
      BY <2>2
    <3>2. lists[i] = <<x>>
      BY <2>1, <3>1
    <3> QED
      BY <2>1, <3>2
  <2>3. CASE list[i] \notin keep
    BY <2>1, <2>3
  <2> QED
    BY <2>1, <2>2, <2>3
<1>4. DOMAIN lists = 1..Len(list)
  BY <1>1, <1>2 DEF Sieve
<1>5. lists \in [1..Len(list) -> Seq(keep)]
  <2>1. lists = [i \in 1..Len(list) |-> IF list[i] \in keep THEN <<list[i]>> ELSE <<>>]
    BY <1>1, <1>2 DEF Sieve
  <2>2. \A i \in 1..Len(list) : (IF list[i] \in keep THEN <<list[i]>> ELSE <<>>) \in Seq(keep)
    BY <1>3
  <2> QED
    BY <2>1, <2>2
<1>6. lists \in Seq(Seq(keep)) /\ Len(lists) = Len(list)
  BY <1>2, <1>5, IsASeq
<1>7. Options(lists, list, keep)
  BY <1>3, <1>6 DEF Options
<1> QED
  BY <1>1, <1>7

\* What is left in the list, and where it was.
Sifts(flat, list, keep, at) ==
  /\ at \in [1..Len(flat) -> 1..Len(list)]
  /\ \A p \in 1..Len(flat) : flat[p] = list[at[p]]
  /\ \A p, q \in 1..Len(flat) : at[p] = at[q] => p = q
  /\ \A i \in 1..Len(list) : list[i] \in keep => \E p \in 1..Len(flat) : flat[p] = list[i]

LEMMA SiftedAreKept ==
  ASSUME NEW R, NEW list \in Seq(R), NEW keep \in SUBSET R,
         NEW flat, flat = FlattenSeq(Sieve(list, keep))
  PROVE  flat \in Seq(keep) /\ \E at : Sifts(flat, list, keep, at)
<1>1. PICK lists : lists = Sieve(list, keep) /\ Options(lists, list, keep)
  BY SievesAreOptions
<1>2. /\ lists \in Seq(Seq(keep)) /\ Len(lists) = Len(list)
      /\ \A i \in 1..Len(list) : Len(lists[i]) <= 1
      /\ \A i \in 1..Len(list) : lists[i] = IF list[i] \in keep THEN <<list[i]>> ELSE <<>>
  BY <1>1 DEF Options
<1>3. flat \in Seq(keep) /\ \E at : Picked(flat, lists, Len(lists), at)
  <2>1. \A i \in 1..Len(lists) : Len(lists[i]) <= 1
    BY <1>2
  <2>2. FlattenSeq(lists) \in Seq(keep) /\ \E at : Picked(FlattenSeq(lists), lists, Len(lists), at)
    BY <1>2, <2>1, FlattenPicks
  <2> QED
    BY <1>1, <2>2
<1>4. PICK at : Picked(flat, lists, Len(lists), at)
  BY <1>3
<1>5. at \in [1..Len(flat) -> 1..Len(list)]
  BY <1>2, <1>4 DEF Picked
<1>6. ASSUME NEW p \in 1..Len(flat) PROVE flat[p] = list[at[p]]
  <2>1. PICK i \in 1..Len(list) : i = at[p]
    BY <1>5
  <2>2. lists[i] = <<flat[p]>>
    BY <1>4, <2>1 DEF Picked
  <2>3. <<flat[p]>> # <<>>
    OBVIOUS
  <2>4. <<list[i]>> = <<flat[p]>>
    BY <1>2, <2>2, <2>3
  <2>5. <<list[i]>>[1] = <<flat[p]>>[1]
    BY <2>4
  <2> QED
    BY <2>1, <2>5
<1>7. ASSUME NEW p \in 1..Len(flat), NEW q \in 1..Len(flat), at[p] = at[q] PROVE p = q
  <2>1. at[p] \in Int /\ at[q] \in Int /\ Len(flat) \in Nat
    BY <1>5, <1>3
  <2>2. ~(p < q) /\ ~(q < p)
    BY <1>4, <1>7, <2>1 DEF Picked
  <2> QED
    BY <2>2, <1>3
<1>8. ASSUME NEW i \in 1..Len(list), list[i] \in keep PROVE \E p \in 1..Len(flat) : flat[p] = list[i]
  <2>1. lists[i] = <<list[i]>> /\ <<list[i]>> # <<>>
    BY <1>2, <1>8
  <2>2. PICK p \in 1..Len(flat) : at[p] = i
    BY <1>2, <1>4, <2>1 DEF Picked
  <2> QED
    BY <1>6, <2>2
<1> QED
  BY <1>3, <1>5, <1>6, <1>7, <1>8 DEF Sifts

\* No two entries of one id: as it is counted, and as it is used.
Differ(list) == \A i, j \in 1..Len(list) : list[i].id = list[j].id => i = j

LEMMA CountedIds ==
  ASSUME NEW R, NEW list \in Seq(R)
  PROVE  Cardinality(Ids(list)) = Len(list) <=> Differ(list)
<1>1. Len(list) \in Nat /\ DOMAIN list = 1..Len(list)
  BY LenProperties
<1>2. IsFiniteSet(1..Len(list)) /\ Cardinality(1..Len(list)) = Len(list)
  BY <1>1, FS_Interval
<1>3. PICK f : f = [i \in 1..Len(list) |-> list[i].id]
  OBVIOUS
<1>4. Ids(list) = {list[i].id : i \in 1..Len(list)}
  BY <1>1 DEF Ids
<1>5. f \in Surjection(1..Len(list), Ids(list))
  BY <1>3, <1>4 DEF Surjection
<1>6. Cardinality(Ids(list)) = Cardinality(1..Len(list)) <=> f \in Injection(1..Len(list), Ids(list))
  BY <1>2, <1>5, FS_Surjection
<1>7. f \in Injection(1..Len(list), Ids(list)) <=> Differ(list)
  BY <1>3, <1>4 DEF Injection, IsInjective, Differ
<1> QED
  BY <1>2, <1>6, <1>7

\* What is kept of a list whose entries differ differs, and has their ids.
SiftedApart(flat, list, keep) ==
  /\ flat \in Seq(keep) /\ Differ(flat)
  /\ \A id : id \in Ids(flat) <=> \E i \in 1..Len(list) : list[i] \in keep /\ list[i].id = id

LEMMA SiftedDiffer ==
  ASSUME NEW R, NEW list \in Seq(R), NEW keep \in SUBSET R,
         NEW flat, flat = FlattenSeq(Sieve(list, keep)), Differ(list)
  PROVE  SiftedApart(flat, list, keep)
<1>1. flat \in Seq(keep)
  BY SiftedAreKept
<1>2. PICK at : Sifts(flat, list, keep, at)
  BY SiftedAreKept
<1>3. /\ at \in [1..Len(flat) -> 1..Len(list)]
      /\ \A p \in 1..Len(flat) : flat[p] = list[at[p]]
      /\ \A p, q \in 1..Len(flat) : at[p] = at[q] => p = q
      /\ \A i \in 1..Len(list) : list[i] \in keep => \E p \in 1..Len(flat) : flat[p] = list[i]
  BY <1>2 DEF Sifts
<1>4. Differ(flat)
  <2>1. SUFFICES ASSUME NEW p \in 1..Len(flat), NEW q \in 1..Len(flat), flat[p].id = flat[q].id PROVE p = q
    BY DEF Differ
  <2>2. at[p] \in 1..Len(list) /\ at[q] \in 1..Len(list) /\ list[at[p]].id = list[at[q]].id
    BY <1>3, <2>1
  <2>3. at[p] = at[q]
    BY <2>2 DEF Differ
  <2> QED
    BY <1>3, <2>3
<1>5. DOMAIN flat = 1..Len(flat) /\ \A p \in 1..Len(flat) : flat[p] \in keep
  BY <1>1, LenProperties, ElementOfSeq
<1>6. ASSUME NEW id
      PROVE  id \in Ids(flat) <=> \E i \in 1..Len(list) : list[i] \in keep /\ list[i].id = id
  <2>1. id \in Ids(flat) <=> \E p \in 1..Len(flat) : flat[p].id = id
    BY <1>5 DEF Ids
  <2>2. ASSUME NEW p \in 1..Len(flat), flat[p].id = id
        PROVE  \E i \in 1..Len(list) : list[i] \in keep /\ list[i].id = id
    BY <1>3, <1>5, <2>2
  <2>3. ASSUME NEW i \in 1..Len(list), list[i] \in keep, list[i].id = id
        PROVE  \E p \in 1..Len(flat) : flat[p].id = id
    BY <1>3, <2>3
  <2> QED
    BY <2>1, <2>2, <2>3
<1> QED
  BY <1>1, <1>4, <1>6 DEF SiftedApart

LEMMA SinglesFlatten ==
  ASSUME NEW R, NEW list \in Seq(R)
  PROVE  FlattenSeq([i \in DOMAIN list |-> <<list[i]>>]) = list
<1>1. Len(list) \in Nat /\ DOMAIN list = 1..Len(list) /\ list \in [1..Len(list) -> R]
  BY LenProperties
<1>2. PICK lists : lists = [i \in 1..Len(list) |-> <<list[i]>>]
  OBVIOUS
<1>3. lists \in Seq(Seq(R)) /\ Len(lists) = Len(list)
  <2>1. lists \in [1..Len(list) -> Seq(R)]
    BY <1>1, <1>2
  <2> QED
    BY <1>1, <2>1, IsASeq
<1>4. CASE list = <<>>
  <2>1. lists = <<>>
    BY <1>3, <1>4, EmptySeq
  <2> QED
    BY <1>1, <1>2, <1>4, <2>1 DEF FlattenSeq
<1>5. CASE list # <<>>
  <2>1. Len(list) # 0
    BY <1>5, EmptySeq
  <2>2. lists # <<>>
    BY <1>3, <2>1, EmptySeq
  <2>3. PICK f : Joins(f, Len(lists), lists) /\ FlattenSeq(lists) = f[Len(lists)]
    BY <1>3, <2>2, FlattenJoins
  <2> DEFINE G == {k \in Nat : k \in 1..Len(list) => f[k] = SubSeq(list, 1, k)}
  <2>4. 0 \in G
    OBVIOUS
  <2>5. ASSUME NEW k \in Nat, k \in G PROVE k + 1 \in G
    <3>1. SUFFICES ASSUME k + 1 \in 1..Len(list) PROVE f[k + 1] = SubSeq(list, 1, k + 1)
      OBVIOUS
    <3>2. f[k + 1] = IF k = 0 THEN lists[k + 1] ELSE f[k] \o lists[k + 1]
      BY <1>3, <2>3, <3>1, JoinsStep
    <3>3. lists[k + 1] = <<list[k + 1]>>
      BY <1>2, <3>1
    <3>4. CASE k = 0
      <4>1. f[k + 1] = <<list[1]>>
        BY <3>2, <3>3, <3>4
      <4>2. PICK one : one = SubSeq(list, 1, 1)
        OBVIOUS
      <4>3. 1 \in 1..Len(list)
        BY <3>1, <3>4
      <4>4. Len(one) = 1 /\ one[1] = list[1] /\ one \in Seq(R)
        BY <4>2, <4>3
      <4>5. one = <<list[1]>>
        BY <4>4
      <4> QED
        BY <3>4, <4>1, <4>2, <4>5
    <3>5. CASE k # 0
      <4>1. f[k] = SubSeq(list, 1, k)
        BY <2>5, <3>1, <3>5
      <4>2. f[k + 1] = SubSeq(list, 1, k) \o <<list[k + 1]>>
        BY <3>2, <3>3, <3>5, <4>1
      <4>3. SubSeq(list, 1, k + 1) = SubSeq(list, 1, k) \o <<list[k + 1]>>
        BY <3>1
      <4> QED
        BY <4>2, <4>3
    <3> QED
      BY <3>4, <3>5
  <2>6. Len(list) \in G
    <3> HIDE DEF G
    <3> QED
      BY <1>1, <2>4, <2>5, CountedInduction
  <2>7. FlattenSeq(lists) = SubSeq(list, 1, Len(list))
    BY <1>1, <1>3, <2>1, <2>3, <2>6
  <2>8. SubSeq(list, 1, Len(list)) = list
    BY <1>1, <2>1
  <2> QED
    BY <1>1, <1>2, <2>7, <2>8
<1> QED
  BY <1>4, <1>5

Written == [id : Catalog \cup {"amp"}, enabled : BOOLEAN, wellFormed : {TRUE}]
Unmixed == [id : Catalog, enabled : BOOLEAN, wellFormed : {TRUE}]
Entry == [id : Catalog, enabled : BOOLEAN]

LEMMA CatalogIsListed ==
  /\ Catalog = {"claude", "codex", "grok", "antigravity"}
  /\ CatalogOrder \in Seq(Catalog) /\ Len(CatalogOrder) = 4 /\ DOMAIN CatalogOrder = 1..4
  /\ \A i, j \in 1..4 : CatalogOrder[i] = CatalogOrder[j] => i = j
<1>1. Len(CatalogOrder) = 4 /\ DOMAIN CatalogOrder = 1..4
  BY DEF CatalogOrder
<1>2. /\ CatalogOrder[1] = "claude" /\ CatalogOrder[2] = "codex"
      /\ CatalogOrder[3] = "grok" /\ CatalogOrder[4] = "antigravity"
  BY DEF CatalogOrder
<1>3. \A i \in 1..4 : i = 1 \/ i = 2 \/ i = 3 \/ i = 4
  OBVIOUS
<1>4. Catalog = {"claude", "codex", "grok", "antigravity"}
  BY <1>1, <1>2, <1>3 DEF Catalog
<1>5. CatalogOrder \in Seq(Catalog)
  BY <1>4 DEF CatalogOrder
<1>6. \A i, j \in 1..4 : CatalogOrder[i] = CatalogOrder[j] => i = j
  BY <1>2, <1>3
<1> QED
  BY <1>1, <1>4, <1>5, <1>6

\* Amp's entries are those that are dropped.
LEMMA AmpIsSifted ==
  ASSUME NEW list \in Seq(Written)
  PROVE  WithoutAmp(list) = FlattenSeq(Sieve(list, Unmixed))
<1>1. DOMAIN list = 1..Len(list)
  BY LenProperties
<1>2. ASSUME NEW i \in 1..Len(list)
      PROVE  (list[i].id = "amp" /\ list[i].wellFormed) <=> list[i] \notin Unmixed
  <2>1. PICK e \in Written : e = list[i]
    BY ElementOfSeq
  <2>2. e.wellFormed = TRUE /\ (e.id = "amp" <=> e.id \notin Catalog)
    BY CatalogIsListed DEF Written
  <2>3. e \in Unmixed <=> e.id \in Catalog
    BY DEF Written, Unmixed
  <2> QED
    BY <2>1, <2>2, <2>3
<1>3. [i \in DOMAIN list |-> IF list[i].id = "amp" /\ list[i].wellFormed THEN <<>> ELSE <<list[i]>>]
        = Sieve(list, Unmixed)
  BY <1>1, <1>2 DEF Sieve
<1> QED
  BY <1>3 DEF WithoutAmp

\* A list without Amp's entries is taken as it is.
LEMMA NothingIsSifted ==
  ASSUME NEW list \in Seq(Unmixed)
  PROVE  WithoutAmp(list) = list
<1>1. DOMAIN list = 1..Len(list)
  BY LenProperties
<1>2. ASSUME NEW i \in 1..Len(list)
      PROVE  ~(list[i].id = "amp" /\ list[i].wellFormed)
  <2>1. PICK e \in Unmixed : e = list[i]
    BY ElementOfSeq
  <2>2. e.id # "amp"
    BY CatalogIsListed DEF Unmixed
  <2> QED
    BY <2>1, <2>2
<1>3. [i \in DOMAIN list |-> IF list[i].id = "amp" /\ list[i].wellFormed THEN <<>> ELSE <<list[i]>>]
        = [i \in DOMAIN list |-> <<list[i]>>]
  BY <1>1, <1>2
<1> QED
  BY <1>3, SinglesFlatten DEF WithoutAmp

\* The entries of a list, as settings.
Listing(list) == [i \in DOMAIN list |-> Setting(list[i].id, list[i].enabled)]

LEMMA ListingKeeps ==
  ASSUME NEW R, NEW list \in Seq(R),
         \A e \in R : e.id \in Catalog /\ e.enabled \in BOOLEAN
  PROVE  /\ Listing(list) \in Seq(Entry) /\ Len(Listing(list)) = Len(list)
         /\ Ids(Listing(list)) = Ids(list)
         /\ Differ(list) => Differ(Listing(list))
         /\ \A i \in 1..Len(list) : Listing(list)[i] = Setting(list[i].id, list[i].enabled)
<1>1. Len(list) \in Nat /\ DOMAIN list = 1..Len(list)
  BY LenProperties
<1>2. PICK out : out = Listing(list)
  OBVIOUS
<1>3. out = [i \in 1..Len(list) |-> Setting(list[i].id, list[i].enabled)]
  BY <1>1, <1>2 DEF Listing
<1>4. \A i \in 1..Len(list) : Setting(list[i].id, list[i].enabled) \in Entry
  BY ElementOfSeq DEF Setting, Entry
<1>5. out \in [1..Len(list) -> Entry]
  BY <1>3, <1>4
<1>6. out \in Seq(Entry) /\ Len(out) = Len(list) /\ DOMAIN out = 1..Len(list)
  BY <1>1, <1>5, IsASeq
<1>7. \A i \in 1..Len(list) : out[i].id = list[i].id
  BY <1>3 DEF Setting
<1>8. Ids(out) = Ids(list)
  BY <1>1, <1>6, <1>7 DEF Ids
<1>9. Differ(list) => Differ(out)
  BY <1>6, <1>7 DEF Differ
<1> QED
  BY <1>2, <1>3, <1>6, <1>8, <1>9

\* What every provider's entry is at first.
LEMMA AllEntries ==
  /\ [i \in 1..4 |-> Setting(CatalogOrder[i], DefaultEnabled(CatalogOrder[i]))] \in Seq(Entry)
  /\ Differ([i \in 1..4 |-> Setting(CatalogOrder[i], DefaultEnabled(CatalogOrder[i]))])
  /\ Len([i \in 1..4 |-> Setting(CatalogOrder[i], DefaultEnabled(CatalogOrder[i]))]) = 4
<1>1. PICK all : all = [i \in 1..4 |-> Setting(CatalogOrder[i], DefaultEnabled(CatalogOrder[i]))]
  OBVIOUS
<1>2. \A i \in 1..4 : CatalogOrder[i] \in Catalog
  BY CatalogIsListed, ElementOfSeq
<1>3. \A i \in 1..4 : DefaultEnabled(CatalogOrder[i]) \in BOOLEAN
  BY DEF DefaultEnabled
<1>4. \A i \in 1..4 : Setting(CatalogOrder[i], DefaultEnabled(CatalogOrder[i])) \in Entry
  BY <1>2, <1>3 DEF Setting, Entry
<1>5. all \in Seq(Entry) /\ Len(all) = 4
  BY <1>1, <1>4, IsASeq
<1>6. \A i \in 1..4 : all[i].id = CatalogOrder[i]
  BY <1>1 DEF Setting
<1>7. Differ(all)
  BY <1>5, <1>6, CatalogIsListed DEF Differ
<1> QED
  BY <1>1, <1>5, <1>7

\* Filled(): the entries stay where they are, and every provider has one.
LEMMA FilledHasAll ==
  ASSUME NEW listed \in Seq(Entry), Differ(listed), ORIGINAL_V10_PROVIDERS \subseteq Ids(listed)
  PROVE  /\ Filled(listed) \in Seq(Entry) /\ Differ(Filled(listed)) /\ Ids(Filled(listed)) = Catalog
         /\ IsPrefix(listed, Filled(listed))
<1>1. PICK all : all = [i \in 1..4 |-> Setting(CatalogOrder[i], DefaultEnabled(CatalogOrder[i]))]
  OBVIOUS
<1>2. all \in Seq(Entry) /\ Differ(all) /\ Len(all) = 4
  BY <1>1, AllEntries
<1>3. PICK keep \in SUBSET Entry : keep = {e \in Entry : e.id \notin Ids(listed)}
  OBVIOUS
<1>4. ASSUME NEW i \in 1..4
      PROVE  all[i].id = CatalogOrder[i] /\ (all[i] \in keep <=> CatalogOrder[i] \notin Ids(listed))
  <2>1. all[i].id = CatalogOrder[i] /\ all[i] \in Entry
    BY <1>1, <1>2, ElementOfSeq DEF Setting
  <2> QED
    BY <1>3, <2>1
<1>5. DOMAIN all = 1..4
  BY <1>1
<1>6. [i \in DOMAIN CatalogOrder |->
         IF CatalogOrder[i] \in Ids(listed) THEN <<>>
         ELSE <<Setting(CatalogOrder[i], DefaultEnabled(CatalogOrder[i]))>>]
        = Sieve(all, keep)
  <2>1. \A i \in 1..4 : all[i] = Setting(CatalogOrder[i], DefaultEnabled(CatalogOrder[i]))
    BY <1>1
  <2>2. DOMAIN CatalogOrder = 1..4
    BY CatalogIsListed
  <2> QED
    BY <1>4, <1>5, <2>1, <2>2 DEF Sieve
<1>7. PICK extra : extra = FlattenSeq(Sieve(all, keep))
  OBVIOUS
<1>8. /\ extra \in Seq(keep) /\ Differ(extra)
      /\ \A id : id \in Ids(extra) <=> \E i \in 1..Len(all) : all[i] \in keep /\ all[i].id = id
  <2>1. SiftedApart(extra, all, keep)
    BY <1>2, <1>7, SiftedDiffer
  <2> QED
    BY <2>1 DEF SiftedApart
<1>9. Filled(listed) = listed \o extra
  BY <1>6, <1>7 DEF Filled
<1>10. extra \in Seq(Entry)
  <2>1. Len(extra) \in Nat /\ extra \in [1..Len(extra) -> keep]
    BY <1>8, LenProperties
  <2>2. extra \in [1..Len(extra) -> Entry]
    BY <2>1
  <2> QED
    BY <2>1, <2>2, IsASeq
<1>11. PICK full : full = listed \o extra
  OBVIOUS
<1>12. /\ full \in Seq(Entry) /\ Len(full) = Len(listed) + Len(extra)
       /\ \A i \in 1..Len(listed) : full[i] = listed[i]
       /\ \A i \in 1..Len(extra) : full[Len(listed) + i] = extra[i]
       /\ Len(listed) \in Nat /\ Len(extra) \in Nat
       /\ DOMAIN listed = 1..Len(listed) /\ DOMAIN extra = 1..Len(extra) /\ DOMAIN full = 1..Len(full)
  BY <1>10, <1>11
<1>13. \A i \in 1..Len(extra) : extra[i].id \notin Ids(listed)
  <2>1. \A i \in 1..Len(extra) : extra[i] \in keep
    BY <1>8, ElementOfSeq
  <2> QED
    BY <1>3, <2>1
<1>14. \A i \in 1..Len(listed) : listed[i].id \in Ids(listed) /\ listed[i].id \in Catalog
  <2>1. \A i \in 1..Len(listed) : listed[i] \in Entry
    BY ElementOfSeq
  <2> QED
    BY <1>12, <2>1 DEF Ids, Entry
<1>15. ASSUME NEW i \in 1..Len(full)
       PROVE  \/ i \in 1..Len(listed)
              \/ \E k \in 1..Len(extra) : i = Len(listed) + k
  <2>1. CASE i <= Len(listed)
    BY <1>12, <2>1
  <2>2. CASE i > Len(listed)
    <3>1. i - Len(listed) \in 1..Len(extra) /\ i = Len(listed) + (i - Len(listed))
      BY <1>12, <2>2
    <3> QED
      BY <3>1
  <2> QED
    BY <1>12, <2>1, <2>2
<1>16. Differ(full)
  <2>1. SUFFICES ASSUME NEW i \in 1..Len(full), NEW j \in 1..Len(full), full[i].id = full[j].id PROVE i = j
    BY DEF Differ
  <2>2. CASE i \in 1..Len(listed) /\ j \in 1..Len(listed)
    <3>1. listed[i].id = listed[j].id
      BY <1>12, <2>1, <2>2
    <3> QED
      BY <2>2, <3>1 DEF Differ
  <2>3. ASSUME NEW p \in 1..Len(full), NEW q \in 1..Len(full), full[p].id = full[q].id,
               p \in 1..Len(listed), NEW k \in 1..Len(extra), q = Len(listed) + k
        PROVE  FALSE
    <3>1. full[p].id \in Ids(listed)
      BY <1>12, <1>14, <2>3
    <3>2. full[q].id \notin Ids(listed)
      BY <1>12, <1>13, <2>3
    <3> QED
      BY <2>3, <3>1, <3>2
  <2>4. ASSUME NEW k \in 1..Len(extra), NEW l \in 1..Len(extra), i = Len(listed) + k, j = Len(listed) + l
        PROVE  i = j
    <3>1. extra[k].id = extra[l].id
      BY <1>12, <2>1, <2>4
    <3>2. k = l
      BY <1>8, <3>1 DEF Differ
    <3> QED
      BY <2>4, <3>2
  <2> QED
    BY <1>15, <2>1, <2>2, <2>3, <2>4
<1>17. Ids(full) = Catalog
  <2>1. \A e \in Entry : e.id \in Catalog
    BY DEF Entry
  <2>2. Ids(full) \subseteq Catalog
    <3>1. \A i \in 1..Len(full) : full[i] \in Entry
      BY <1>12, ElementOfSeq
    <3> QED
      BY <1>12, <2>1, <3>1 DEF Ids
  <2>3. ASSUME NEW id \in Catalog PROVE id \in Ids(full)
    <3>1. CASE id \in Ids(listed)
      <4>1. PICK i \in 1..Len(listed) : listed[i].id = id
        BY <1>12, <3>1 DEF Ids
      <4>2. i \in 1..Len(full) /\ full[i].id = id
        BY <1>12, <4>1
      <4> QED
        BY <1>12, <4>2 DEF Ids
    <3>2. CASE id \notin Ids(listed)
      <4>1. PICK n \in 1..4 : CatalogOrder[n] = id
        BY CatalogIsListed DEF Catalog
      <4>2. id \in Ids(extra)
        BY <1>2, <1>4, <1>8, <3>2, <4>1
      <4>3. PICK i \in 1..Len(extra) : extra[i].id = id
        BY <1>12, <4>2 DEF Ids
      <4>4. Len(listed) + i \in 1..Len(full) /\ full[Len(listed) + i].id = id
        BY <1>12, <4>3
      <4> QED
        BY <1>12, <4>4 DEF Ids
    <3> QED
      BY <3>1, <3>2
  <2> QED
    BY <2>2, <2>3
<1>18. IsPrefix(listed, full)
  <2>1. Len(listed) <= Len(full)
    BY <1>12
  <2>2. SubSeq(listed, 1, Len(listed)) = SubSeq(full, 1, Len(listed))
    <3>1. \A i \in 1..Len(listed) : listed[i] = full[i]
      BY <1>12
    <3>2. /\ SubSeq(listed, 1, Len(listed)) = [i \in 1..Len(listed) |-> listed[i]]
          /\ SubSeq(full, 1, Len(listed)) = [i \in 1..Len(listed) |-> full[i]]
      BY <1>12
    <3> QED
      BY <3>1, <3>2
  <2> QED
    BY <2>1, <2>2 DEF IsPrefix
<1> QED
  BY <1>9, <1>11, <1>12, <1>16, <1>17, <1>18

Metrics == {"used", "remaining"}

LEMMA SettingsFields ==
  ASSUME NEW providers, NEW metric, NEW interval, NEW notify,
         NEW out, out = Settings(providers, metric, interval, notify)
  PROVE  out.providers = providers /\ out.metric = metric /\ out.interval = interval /\ out.notify = notify
BY DEF Settings

LEMMA SettingsAreNoError ==
  ASSUME NEW providers \in Seq(Entry), NEW metric \in Metrics,
         NEW interval \in MIN_REFRESH..MAX_REFRESH, NEW notify \in BOOLEAN
  PROVE  Settings(providers, metric, interval, notify) # NoDocument
<1>1. Settings(providers, metric, interval, notify) \in
        [schema : {1}, providers : Seq([id : Catalog, enabled : BOOLEAN]), metric : {"used", "remaining"},
         interval : MIN_REFRESH..MAX_REFRESH, notify : BOOLEAN]
  BY DEF Settings, Entry, Metrics
<1> QED
  BY <1>1, NoDocumentAssumption

LEMMA DifferingAreValid ==
  ASSUME NEW providers \in Seq(Entry), Differ(providers), Ids(providers) = Catalog,
         NEW metric, NEW interval \in MIN_REFRESH..MAX_REFRESH, NEW notify
  PROVE  Valid(Settings(providers, metric, interval, notify))
<1>1. Cardinality(Ids(providers)) = Len(providers)
  BY CountedIds
<1>2. PICK s : s = Settings(providers, metric, interval, notify)
  OBVIOUS
<1>3. s.schema = 1 /\ s.providers = providers /\ s.interval = interval
  BY <1>2 DEF Settings
<1> QED
  BY <1>1, <1>2, <1>3 DEF Valid

\* What parse_with_policy() makes of a document that passes.
LEMMA ParsesTo ==
  ASSUME NEW raw, raw # NoDocument, LegacyBlocksPass(raw), Typed(raw), raw.schema = 1,
         NEW fill \in BOOLEAN, NEW listed, listed = Listing(WithoutAmp(raw.providers)),
         NEW providers \in Seq(Entry), providers = (IF fill THEN Filled(listed) ELSE listed),
         Differ(providers), Ids(providers) = Catalog, raw.interval \in MIN_REFRESH..MAX_REFRESH
  PROVE  ParseWithPolicy(raw, fill) = Settings(providers, raw.metric, raw.interval, raw.notify)
<1>1. listed = [i \in DOMAIN WithoutAmp(raw.providers) |->
                  Setting(WithoutAmp(raw.providers)[i].id, WithoutAmp(raw.providers)[i].enabled)]
  BY DEF Listing
<1>2. PICK settings :
        settings = [Settings(providers, raw.metric, raw.interval, raw.notify) EXCEPT !.schema = raw.schema]
  OBVIOUS
<1>3. settings = Settings(providers, raw.metric, raw.interval, raw.notify)
  BY <1>2 DEF Settings
<1>4. Valid(settings)
  BY <1>3, DifferingAreValid
<1>5. ParseWithPolicy(raw, fill) = IF Valid(settings) THEN settings ELSE NoDocument
  BY <1>1, <1>2 DEF ParseWithPolicy
<1> QED
  BY <1>3, <1>4, <1>5

\* The entries of a document that an earlier release wrote, Amp's aside.
LEMMA ReleaseKeeps ==
  ASSUME NEW raw, WrittenByARelease(raw), NEW kept, kept = WithoutAmp(raw.providers)
  PROVE  kept \in Seq(Unmixed) /\ Differ(kept) /\ ORIGINAL_V10_PROVIDERS \subseteq Ids(kept)
<1>1. PICK list \in Seq(Written) : list = raw.providers
  BY DEF WrittenByARelease, Written
<1>2. Cardinality(Ids(list)) = Len(list) /\ ORIGINAL_V10_PROVIDERS \subseteq Ids(list)
  BY <1>1 DEF WrittenByARelease
<1>3. Differ(list)
  BY <1>2, CountedIds
<1>4. Unmixed \in SUBSET Written
  BY DEF Unmixed, Written
<1>5. kept = FlattenSeq(Sieve(list, Unmixed))
  BY <1>1, AmpIsSifted
<1>6. SiftedApart(kept, list, Unmixed)
  BY <1>3, <1>4, <1>5, SiftedDiffer
<1>7. ASSUME NEW id \in ORIGINAL_V10_PROVIDERS PROVE id \in Ids(kept)
  <2>1. DOMAIN list = 1..Len(list)
    BY LenProperties
  <2>2. PICK i \in 1..Len(list) : list[i].id = id
    BY <1>2, <2>1 DEF Ids
  <2>3. PICK e \in Written : e = list[i]
    BY ElementOfSeq
  <2>4. e.id \in Catalog
    BY <2>2, <2>3, CatalogIsListed DEF ORIGINAL_V10_PROVIDERS
  <2>5. e \in Unmixed
    BY <2>4 DEF Written, Unmixed
  <2> QED
    BY <1>6, <2>2, <2>3, <2>5 DEF SiftedApart
<1> QED
  BY <1>6, <1>7 DEF SiftedApart

\* The options of settings, and that config apply takes the document they are printed as.
LEMMA SettingsAreTaken ==
  ASSUME NEW providers \in Seq(Entry), Differ(providers), Ids(providers) = Catalog,
         NEW metric \in Metrics, NEW interval \in MIN_REFRESH..MAX_REFRESH, NEW notify \in BOOLEAN,
         NEW out, out = Settings(providers, metric, interval, notify)
  PROVE  ParseStrict(Document(out)) = out
<1>1. PICK list : list = [i \in DOMAIN providers |->
                            [id |-> providers[i].id, enabled |-> providers[i].enabled, wellFormed |-> TRUE]]
  OBVIOUS
<1>2. Len(providers) \in Nat /\ DOMAIN providers = 1..Len(providers) /\ providers \in [1..Len(providers) -> Entry]
  BY LenProperties
<1>3. \A i \in 1..Len(providers) :
        [id |-> providers[i].id, enabled |-> providers[i].enabled, wellFormed |-> TRUE] \in Unmixed
  BY <1>2 DEF Entry, Unmixed
<1>4. list \in [1..Len(providers) -> Unmixed]
  BY <1>1, <1>2, <1>3
<1>5. list \in Seq(Unmixed) /\ Len(list) = Len(providers) /\ DOMAIN list = 1..Len(providers)
  BY <1>2, <1>4, IsASeq
<1>6. PICK doc : doc = Document(out)
  OBVIOUS
<1>7. doc = [schema |-> 1, providers |-> list, metric |-> metric, interval |-> interval, notify |-> notify,
             reminder |-> None, updates |-> None, closed |-> TRUE]
  BY <1>1, <1>6 DEF Document, Settings
<1>8. doc # NoDocument
  <2>1. doc \in [schema : {1}, providers : Seq([id : Catalog, enabled : BOOLEAN, wellFormed : {TRUE}]),
                 metric : {"used", "remaining"}, interval : MIN_REFRESH..MAX_REFRESH, notify : BOOLEAN,
                 reminder : {None}, updates : {None}, closed : {TRUE}]
    BY <1>5, <1>7 DEF Unmixed, Metrics
  <2> QED
    BY <2>1, NoDocumentAssumption
<1>9. /\ doc.schema = 1 /\ doc.providers = list /\ doc.metric = metric /\ doc.interval = interval
      /\ doc.notify = notify /\ doc.reminder = None /\ doc.updates = None /\ doc.closed = TRUE
  BY <1>7
<1>10. WithoutAmp(list) = list
  BY <1>5, NothingIsSifted
<1>11. LegacyBlocksPass(doc)
  BY <1>9 DEF LegacyBlocksPass
<1>12. Typed(doc)
  <2>1. \A i \in 1..Len(list) : list[i] \in Unmixed
    BY <1>5, ElementOfSeq
  <2>2. \A i \in 1..Len(list) : list[i].wellFormed = TRUE /\ list[i].id \in Catalog
    BY <2>1 DEF Unmixed
  <2>3. \A i \in DOMAIN WithoutAmp(doc.providers) :
          WithoutAmp(doc.providers)[i].wellFormed /\ WithoutAmp(doc.providers)[i].id \in Catalog
    BY <1>5, <1>9, <1>10, <2>2
  <2> QED
    BY <1>9, <2>3 DEF Typed, Metrics
<1>13. Listing(list) = providers
  <2>1. ASSUME NEW i \in 1..Len(providers) PROVE Setting(list[i].id, list[i].enabled) = providers[i]
    <3>1. PICK e \in Entry : e = providers[i]
      BY <1>2
    <3>2. list[i].id = e.id /\ list[i].enabled = e.enabled
      BY <1>1, <1>2, <3>1
    <3>3. e = [id |-> e.id, enabled |-> e.enabled]
      BY DEF Entry
    <3> QED
      BY <3>1, <3>2, <3>3 DEF Setting
  <2>2. providers = [i \in 1..Len(providers) |-> providers[i]]
    BY <1>2
  <2> QED
    BY <1>5, <2>1, <2>2 DEF Listing
<1>14. providers = (IF FALSE THEN Filled(providers) ELSE providers)
  OBVIOUS
<1>15. ParseWithPolicy(doc, FALSE) = Settings(providers, doc.metric, doc.interval, doc.notify)
  <2>1. PICK listed : listed = Listing(WithoutAmp(doc.providers))
    OBVIOUS
  <2>2. listed = providers
    BY <1>9, <1>10, <1>13, <2>1
  <2>3. doc.interval \in MIN_REFRESH..MAX_REFRESH
    BY <1>9
  <2> QED
    BY <1>8, <1>9, <1>11, <1>12, <1>14, <2>1, <2>2, <2>3, ParsesTo
<1> QED
  BY <1>6, <1>9, <1>15 DEF ParseStrict

\* What config show tells of a document that an earlier release wrote.
ToldOf(raw, out) ==
  /\ out # NoDocument
  /\ IsPrefix(EntriesOf(raw), out.providers)
  /\ <<out.metric, out.interval, out.notify>> = <<raw.metric, raw.interval, raw.notify>>
  /\ ParseStrict(Document(out)) = out

LEMMA ReleaseIsShown ==
  ASSUME NEW raw, WrittenByARelease(raw), NEW out, out = ParseWithPolicy(raw, TRUE)
  PROVE  ToldOf(raw, out)
<1>1. PICK kept : kept = WithoutAmp(raw.providers)
  OBVIOUS
<1>2. kept \in Seq(Unmixed) /\ Differ(kept) /\ ORIGINAL_V10_PROVIDERS \subseteq Ids(kept)
  BY <1>1, ReleaseKeeps
<1>3. DOMAIN kept = 1..Len(kept) /\ \A i \in 1..Len(kept) : kept[i] \in Unmixed
  BY <1>2, LenProperties, ElementOfSeq
<1>4. \A e \in Unmixed : e.id \in Catalog /\ e.enabled \in BOOLEAN /\ e.wellFormed = TRUE
  BY DEF Unmixed
<1>5. PICK listed : listed = Listing(kept)
  OBVIOUS
<1>6. listed \in Seq(Entry) /\ Ids(listed) = Ids(kept) /\ Differ(listed)
  <2>1. \A e \in Unmixed : e.id \in Catalog /\ e.enabled \in BOOLEAN
    BY <1>4
  <2> QED
    BY <1>2, <1>5, <2>1, ListingKeeps
<1>7. PICK providers : providers = Filled(listed)
  OBVIOUS
<1>8. /\ providers \in Seq(Entry) /\ Differ(providers) /\ Ids(providers) = Catalog
      /\ IsPrefix(listed, providers)
  BY <1>2, <1>6, <1>7, FilledHasAll
<1>9. /\ raw # NoDocument /\ raw.schema = 1 /\ raw.interval \in MIN_REFRESH..MAX_REFRESH
      /\ raw.metric \in Metrics /\ raw.notify \in BOOLEAN
  BY DEF WrittenByARelease, Metrics
<1>10. LegacyBlocksPass(raw)
  BY DEF WrittenByARelease, LegacyBlocksPass
<1>11. Typed(raw)
  <2>1. \A i \in DOMAIN WithoutAmp(raw.providers) :
          WithoutAmp(raw.providers)[i].wellFormed /\ WithoutAmp(raw.providers)[i].id \in Catalog
    BY <1>1, <1>3, <1>4
  <2>2. raw.closed
    BY DEF WrittenByARelease
  <2> QED
    BY <1>9, <2>1, <2>2 DEF Typed, Metrics
<1>12. out = Settings(providers, raw.metric, raw.interval, raw.notify)
  <2>1. providers = (IF TRUE THEN Filled(listed) ELSE listed)
    BY <1>7
  <2>2. listed = Listing(WithoutAmp(raw.providers))
    BY <1>1, <1>5
  <2> QED
    BY <1>8, <1>9, <1>10, <1>11, <2>1, <2>2, ParsesTo
<1>13. out # NoDocument
  BY <1>8, <1>9, <1>12, SettingsAreNoError
<1>14. /\ out.providers = providers
       /\ <<out.metric, out.interval, out.notify>> = <<raw.metric, raw.interval, raw.notify>>
  <2>1. PICK metric, interval, notify :
          metric = raw.metric /\ interval = raw.interval /\ notify = raw.notify
    OBVIOUS
  <2>2. out = Settings(providers, metric, interval, notify)
    BY <1>12, <2>1, Zenon
  <2>3. out.providers = providers /\ out.metric = metric /\ out.interval = interval /\ out.notify = notify
    BY ONLY <2>2, SettingsFields
  <2> QED
    BY <2>1, <2>3
<1>15. EntriesOf(raw) = listed
  BY <1>1, <1>5 DEF EntriesOf, Listing, Setting
<1>16. ParseStrict(Document(out)) = out
  BY <1>8, <1>9, <1>12, SettingsAreTaken
<1> QED
  BY <1>8, <1>13, <1>14, <1>15, <1>16 DEF ToldOf

---------------------------------------------------------------------------
(* config show: what a process that has read a settings file has told.     *)

Told(p) ==
  p.pc = "done" /\ p.command = Only("config show") => p.input \in {None, NoFile} \/ ShowsFile(p)

AllTold == \A h \in Helpers : Told(helper[h])

LEMMA ShowVerb == Only("config show").verb = "config show"
BY DEF Only

LEMMA InitTold == Init => AllTold
BY FreshFits DEF Init, AllTold, Told

LEMMA BystanderTold ==
  ASSUME NEW p, NEW q, Bystander(p, q), Told(p)
  PROVE  Told(q)
BY DEF Bystander, SameCommand, SameTalk, Told, ShowsFile

LEMMA NextTold == Control /\ AllTold /\ [Next]_vars => AllTold'
<1> SUFFICES ASSUME Control, AllTold, [Next]_vars PROVE AllTold'
  OBVIOUS
<1>1. ASSUME NEW h \in Helpers, Launches(h) PROVE AllTold'
  <2>1. Told(helper'[h])
    <3>1. helper'[h].pc = "done" => helper'[h].command.verb # "config show"
      BY <1>1 DEF Launches, Local
    <3> QED
      BY <3>1, ShowVerb DEF Told
  <2>2. \A o \in Helpers \ {h} : Told(helper'[o])
    BY <1>1, BystanderTold DEF Launches, AllTold, Moves, Advances, AdvancesOnly
  <2> QED
    BY <2>1, <2>2 DEF AllTold
<1>2. ASSUME NEW h \in Helpers, Vanishes(h) PROVE AllTold'
  <2>1. Told(helper'[h])
    BY <1>2 DEF Vanishes, Told, Advances, AdvancesOnly
  <2>2. \A o \in Helpers \ {h} : Told(helper'[o])
    BY <1>2, BystanderTold DEF Vanishes, AllTold, Moves, Advances, AdvancesOnly
  <2> QED
    BY <2>1, <2>2 DEF AllTold
<1>3. ASSUME NEW h \in Helpers, Leaves(h) PROVE AllTold'
  <2>1. Told(helper'[h])
    BY <1>3 DEF Leaves, Told
  <2>2. \A o \in Helpers \ {h} : Told(helper'[o])
    BY <1>3, BystanderTold DEF Leaves, AllTold, Moves, Advances, AdvancesOnly
  <2> QED
    BY <2>1, <2>2 DEF AllTold
<1>4. ASSUME NEW h \in Helpers, Checks(h) PROVE AllTold'
  <2>1. Told(helper'[h])
    <3>1. helper'[h].pc = "done" => helper'[h].command.verb # "config show"
      BY <1>4 DEF Checks, Control, Fitting, Fits, Local, WriteSteps, LockedSteps, SameCommand, SameGate,
         SameWrite, SameTalk, Clear, Ends, Advances, AdvancesOnly
    <3> QED
      BY <3>1, ShowVerb DEF Told
  <2>2. \A o \in Helpers \ {h} : Told(helper'[o])
    BY <1>4, BystanderTold DEF Checks, AllTold, Moves, Advances, AdvancesOnly
  <2> QED
    BY <2>1, <2>2 DEF AllTold
<1>5. ASSUME NEW h \in Helpers, Opens(h) PROVE AllTold'
  <2>1. Told(helper'[h])
    BY <1>5 DEF Opens, Told, Advances, AdvancesOnly
  <2>2. \A o \in Helpers \ {h} : Told(helper'[o])
    BY <1>5, BystanderTold DEF Opens, AllTold, Moves, Advances, AdvancesOnly
  <2> QED
    BY <2>1, <2>2 DEF AllTold
<1>6. ASSUME NEW h \in Helpers, Binds(h) PROVE AllTold'
  <2>1. Told(helper'[h])
    BY <1>6 DEF Binds, Told, Advances, AdvancesOnly
  <2>2. \A o \in Helpers \ {h} : Told(helper'[o])
    BY <1>6, BystanderTold DEF Binds, AllTold, Moves, Advances, AdvancesOnly
  <2> QED
    BY <2>1, <2>2 DEF AllTold
<1>7. ASSUME NEW h \in Helpers, Acquires(h) PROVE AllTold'
  <2>1. Told(helper'[h])
    BY <1>7 DEF Acquires, Told, Advances, AdvancesOnly
  <2>2. \A o \in Helpers \ {h} : Told(helper'[o])
    BY <1>7, BystanderTold DEF Acquires, AllTold, Moves, Advances, AdvancesOnly
  <2> QED
    BY <2>1, <2>2 DEF AllTold
<1>8. ASSUME NEW h \in Helpers, Reads(h) PROVE AllTold'
  <2>1. Told(helper'[h])
    BY <1>8 DEF Reads, Told, Advances, AdvancesOnly
  <2>2. \A o \in Helpers \ {h} : Told(helper'[o])
    BY <1>8, BystanderTold DEF Reads, AllTold, Moves, Advances, AdvancesOnly
  <2> QED
    BY <2>1, <2>2 DEF AllTold
<1>9. ASSUME NEW h \in Helpers, Writes(h) PROVE AllTold'
  <2>1. Told(helper'[h])
    BY <1>9 DEF Writes, Told, Advances, AdvancesOnly
  <2>2. \A o \in Helpers \ {h} : Told(helper'[o])
    BY <1>9, BystanderTold DEF Writes, AllTold, Moves, Advances, AdvancesOnly
  <2> QED
    BY <2>1, <2>2 DEF AllTold
<1>10. ASSUME NEW h \in Helpers, Renames(h) PROVE AllTold'
  <2>1. Told(helper'[h])
    BY <1>10 DEF Renames, Told, Advances, AdvancesOnly
  <2>2. \A o \in Helpers \ {h} : Told(helper'[o])
    BY <1>10, BystanderTold DEF Renames, AllTold, Moves, Advances, AdvancesOnly
  <2> QED
    BY <2>1, <2>2 DEF AllTold
<1>11. ASSUME NEW h \in Helpers, Saves(h) PROVE AllTold'
  <2>1. Told(helper'[h])
    <3>1. helper'[h].pc = "done" => helper'[h].command.verb # "config show"
      BY <1>11 DEF Saves, Control, Fitting, Fits, Local, WriteSteps, LockedSteps, SameCommand, SameGate,
         SameWrite, SameTalk, Clear, Ends, Advances, AdvancesOnly
    <3> QED
      BY <3>1, ShowVerb DEF Told
  <2>2. \A o \in Helpers \ {h} : Told(helper'[o])
    BY <1>11, BystanderTold DEF Saves, AllTold, Moves, Advances, AdvancesOnly
  <2> QED
    BY <2>1, <2>2 DEF AllTold
<1>12. ASSUME NEW h \in Helpers, Goes(h) PROVE AllTold'
  <2>1. Told(helper'[h])
    BY <1>12 DEF Goes, Told, Advances, AdvancesOnly
  <2>2. \A o \in Helpers \ {h} : Told(helper'[o])
    BY <1>12, BystanderTold DEF Goes, AllTold, Moves, Advances, AdvancesOnly
  <2> QED
    BY <2>1, <2>2 DEF AllTold
<1>13. ASSUME NEW h \in Helpers, Confirms(h) PROVE AllTold'
  <2>1. Told(helper'[h])
    BY <1>13 DEF Confirms, Told, Advances, AdvancesOnly
  <2>2. \A o \in Helpers \ {h} : Told(helper'[o])
    BY <1>13, BystanderTold DEF Confirms, AllTold, Moves, Advances, AdvancesOnly
  <2> QED
    BY <2>1, <2>2 DEF AllTold
<1>14. ASSUME NEW h \in Helpers, Purges(h) PROVE AllTold'
  <2>1. Told(helper'[h])
    <3>1. helper'[h].pc = "done" => helper'[h].command.verb # "config show"
      BY <1>14 DEF Purges, Control, Fitting, Fits, Local, WriteSteps, LockedSteps, SameCommand, SameGate,
         SameWrite, SameTalk, Clear, Ends, Advances, AdvancesOnly
    <3> QED
      BY <3>1, ShowVerb DEF Told
  <2>2. \A o \in Helpers \ {h} : Told(helper'[o])
    BY <1>14, BystanderTold DEF Purges, AllTold, Moves, Advances, AdvancesOnly
  <2> QED
    BY <2>1, <2>2 DEF AllTold
<1>15. ASSUME NEW h \in Helpers, Releases(h) PROVE AllTold'
  <2>1. Told(helper'[h])
    BY <1>15 DEF Releases, Told, Advances, AdvancesOnly
  <2>2. \A o \in Helpers \ {h} : Told(helper'[o])
    BY <1>15, BystanderTold DEF Releases, AllTold, Moves, Advances, AdvancesOnly
  <2> QED
    BY <2>1, <2>2 DEF AllTold
<1>16. ASSUME NEW h \in Helpers, Unlinks(h) PROVE AllTold'
  <2>1. Told(helper'[h])
    <3>1. helper'[h].pc = "done" => helper'[h].command.verb # "config show"
      BY <1>16 DEF Unlinks, Control, Fitting, Fits, Local, WriteSteps, LockedSteps, SameCommand, SameGate,
         SameWrite, SameTalk, Clear, Ends, Advances, AdvancesOnly
    <3> QED
      BY <3>1, ShowVerb DEF Told
  <2>2. \A o \in Helpers \ {h} : Told(helper'[o])
    BY <1>16, BystanderTold DEF Unlinks, AllTold, Moves, Advances, AdvancesOnly
  <2> QED
    BY <2>1, <2>2 DEF AllTold
<1>17. CASE PowerLoss
  BY <1>17, LostControl, FreshFits DEF Told, AllTold
<1>18. CASE UNCHANGED vars
  BY <1>18 DEF vars, Told, ShowsFile, AllTold
<1>19. LocalPastGate
  BY DEF Control, Fitting, Fits, LocalPastGate
<1> QED
  BY StepCases, <1>1, <1>2, <1>3, <1>4, <1>5, <1>6, <1>7, <1>8, <1>9, <1>10, <1>11, <1>12, <1>13, <1>14, <1>15,
     <1>16, <1>17, <1>18, <1>19 DEF Control

\* Whatever settings file an earlier release left behind, config show exits well
\* and tells its entries in their order and its options, and config apply takes
\* the document it tells, for any such file and whatever else runs
\* (parse_with_policy(), strip_legacy_amp_provider_entries()).
THEOREM OldSettingsStayUsableHolds == Spec => []OldSettingsStayUsable
<1>1. ASSUME AllTold PROVE OldSettingsStayUsable
  <2>1. SUFFICES ASSUME NEW h \in Helpers, NEW p, p = helper[h],
                        p.pc = "done" /\ p.command = Only("config show") /\ p.input \notin {None, NoFile},
                        WrittenByARelease(p.input)
                 PROVE  /\ p.exit = 0
                        /\ IsPrefix(EntriesOf(p.input), p.out.providers)
                        /\ <<p.out.metric, p.out.interval, p.out.notify>>
                             = <<p.input.metric, p.input.interval, p.input.notify>>
                        /\ ParseStrict(Document(p.out)) = p.out
    BY DEF OldSettingsStayUsable
  <2>2. ShowsFile(p)
    BY <1>1, <2>1 DEF AllTold, Told
  <2>3. p.out = ParseWithPolicy(p.input, TRUE) /\ p.exit = IF p.out = NoDocument THEN 3 ELSE 0
    BY <2>2 DEF ShowsFile
  <2>4. ToldOf(p.input, p.out)
    BY <2>1, <2>3, ReleaseIsShown
  <2> QED
    BY <2>3, <2>4 DEF ToldOf
<1> QED
  BY <1>1, InitControl, NextControl, InitTold, NextTold, PTL DEF Spec

=============================================================================
