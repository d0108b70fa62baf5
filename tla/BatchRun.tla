------------------------------ MODULE BatchRun ------------------------------
(***************************************************************************)
(* The interpreter of batch scripts: grub_exec_run cuts a file into lines  *)
(* and labels, bat_run_script runs the lines, run_line and run_cmd_line    *)
(* (cmdline.c) cut a line at its operators and braces.  The blocks of if   *)
(* and else are two global variables, brace_nesting and else_disabled, and *)
(* a search through the text for the brace that closes a block.            *)
(*                                                                         *)
(* A script calls subroutines of its own and runs itself; a command gives  *)
(* true, false or an error; Ctrl-C may come after any line.                *)
(***************************************************************************)
EXTENDS Integers, Sequences, FiniteSets, FiniteSetsExt, SequencesExt

CONSTANTS
  Files,       \* the scripts: sequences of lines, a line a sequence of
               \* commands
  MaxPid,      \* prog_pid of the script that is not run any more (10)
  Word,        \* bits of else_disabled (32)
  Values,      \* values of the user variables
  MaxSaved     \* bound: setlocals not yet undone

\* A command is a record as in BatchBlocks, with the name of a label as `to`;
\* a label has a line of its own, <<[op |-> "label", to |-> its name]>>.
IsLabel(line) == line[1].op = "label"
IsBrace(c) == c.op \in {"open", "close"}
InLine == {"&&", "||"}
LineOps == {"&;", "|;", ";;"}

ASSUME BatchAssumption ==
  /\ MaxPid \in Nat \ {0, 1} /\ Word \in Nat \ {0} /\ MaxSaved \in Nat
  /\ \A file \in Files : \A i \in DOMAIN file : Len(file[i]) > 0

VARIABLES
  prog,           \* p_bat_prog: the text and the tables of lines and labels
  frames,         \* the activations of bat_run_script, the innermost last
  errnum,         \* "", "error", "goto", "brace", "exit" (1000),
                  \* "exit n" (1000 + n) or "quit" (2000)
  result,         \* the word at 0x4CB00: what the last builtin returned
  brace_nesting,
  else_disabled,  \* the bits that are set
  prog_pid,
  env,            \* the user variables, saved_dir, debug, ...
  saved,          \* what setlocal saved, cc the last one
  sc,             \* the one of setlocal @, 0 without
  bc              \* cc when the innermost script began

blocks == <<brace_nesting, else_disabled>>
locals == <<env, saved, sc, bc>>
batch_vars == <<prog, frames, errnum, result, blocks, prog_pid, locals>>

-----------------------------------------------------------------------------
\* grub_exec_run: the text without its labels; entry[i], where line i begins,
\* one more for the end; label[name], the number of the line after the label.
Load(file) ==
  LET lines == SelectSeq(file, LAMBDA line : ~IsLabel(line))
      labels == {i \in DOMAIN file : IsLabel(file[i])}
      first(name) == Min({i \in labels : file[i][1].to = name})
      line(i) == i - Cardinality({j \in labels : j <= i}) + 1
  IN [text  |-> FlattenSeq(lines),
      entry |-> [i \in 1..(Len(lines) + 1) |->
                   Len(FlattenSeq(SubSeq(lines, 1, i - 1))) + 1],
      label |-> [name \in {file[i][1].to : i \in labels} |-> line(first(name))]]

text == prog.text
Count == Len(prog.entry) - 1
bat_find_label(name) == CASE name = "eof" -> Count + 1
                          [] name \in DOMAIN prog.label -> prog.label[name]
                          [] OTHER -> 0

\* entry: the line; at: the next command of it, 0 when the script is over;
\* status: what run_line last found to follow a command; ret: what run_line
\* returned; target: the line goto returned; script: run as a file; saved_bc:
\* bc of the caller; held: history, how many setlocals there were.
Frame(i) == [entry |-> i, at |-> 1, status |-> "", ret |-> FALSE,
             target |-> 0, script |-> FALSE, saved_bc |-> bc,
             held |-> Len(saved)]

Depth == Len(frames)
Top == frames[Depth]
Line(f) == SubSeq(text, prog.entry[f.entry], prog.entry[f.entry + 1] - 1)
Over(f) == f.at = 0 \/ f.entry > Count
AtCommand == /\ frames # <<>> /\ errnum # "brace"
             /\ ~Over(Top) /\ Top.at <= Len(Line(Top))
Here == Line(Top)[Top.at]

Bit == brace_nesting % Word          \* of 1 << brace_nesting

-----------------------------------------------------------------------------
(* The line behind a block, searched from line `i` on: the text is read for *)
(* braces until as many are closed as were opened, and the line of the last *)
(* one is left.                                                             *)
Number(brace, p, q) == Cardinality({k \in p..q : text[k].op = brace})
LineOf(p) == Max({i \in 1..Count : prog.entry[i] <= p})
\* Mutant: it stops at the first closing brace.
BehindFirst(i) ==
  LineOf(Min({q \in prog.entry[i]..Len(text) : text[q].op = "close"})) + 1
Behind(i) ==
  LET from == prog.entry[i]
      ends == {q \in from..Len(text) :
                 /\ text[q].op = "close"
                 /\ Number("open", from, q) = Number("close", from, q)}
  IN LineOf(Min(ends)) + 1

\* Lines that begin with a brace, as bat_run_script takes them.
OpenLine ==
  /\ AtCommand /\ Top.at = 1 /\ Here.op = "open"
  /\ IF Top.ret
     THEN /\ brace_nesting' = brace_nesting + 1
          /\ frames' = [frames EXCEPT ![Depth].entry = @ + 1]
     ELSE /\ frames' = [frames EXCEPT ![Depth].entry = Behind(@)]
          /\ UNCHANGED brace_nesting
  /\ UNCHANGED <<prog, errnum, result, else_disabled, prog_pid, locals>>

LeaveBlock == /\ brace_nesting' = brace_nesting - 1
              /\ else_disabled' =
                   else_disabled \cup {(brace_nesting - 1) % Word}

CloseLine ==
  /\ AtCommand /\ Top.at = 1 /\ Here.op = "close"
  /\ LeaveBlock
  /\ frames' = [frames EXCEPT ![Depth].entry = @ + 1]
  /\ UNCHANGED <<prog, errnum, result, prog_pid, locals>>

-----------------------------------------------------------------------------
(* After a command.  run_cmd_line goes on with the commands joined to it by *)
(* && and ||, run_line with the others of the line.                         *)
GroupEnd(line, k) == Min({g \in k..Len(line) : line[g].then \notin InLine})
\* skip_to_next_cmd from command k on, for ;;: it stops at a brace as well,
\* but not at one it starts from.
SkipTo(line, k) ==
  Min({Len(line) + 1} \cup {j \in (k + 1)..Len(line) :
                              line[j - 1].then = ";;" \/ IsBrace(line[j])})

\* [at, errnum, status] once command k of f gave r and e.
After(f, r, e) ==
  LET line == Line(f)
      k == f.at
      then == line[k].then
      jumps == e = "goto" /\ r
      joined == then \in InLine /\ ~jumps /\ e # "quit"
      g == GroupEnd(line, k)
      left == IF joined THEN "" ELSE e
      status == IF line[g].then \in LineOps THEN line[g].then
                ELSE IF then \in InLine THEN "" ELSE f.status
      last == Len(line) + 1
  IN IF joined /\ r = (then = "&&")
     THEN [at |-> k + 1, errnum |-> "", status |-> ""]
     ELSE IF left \in {"exit n", "quit"} \/ g = Len(line)
     THEN [at |-> last, errnum |-> left, status |-> status]
     ELSE IF (status = "&;" /\ ~r) \/ (status = "|;" /\ r)
     THEN [at |-> SkipTo(line, g + 1), errnum |-> "", status |-> status]
     ELSE [at |-> g + 1, errnum |-> "", status |-> status]

\* The innermost of `stack` has a command that returned r with errnum e; for
\* a goto, `target` is the line it returned.
Ended(stack, r, e, target) ==
  LET n == Len(stack)
      f == stack[n]
      a == After(f, r, e)
  IN /\ frames' = [stack EXCEPT ![n] =
          [f EXCEPT !.at = a.at, !.status = a.status, !.ret = r,
                    !.target = target]]
     /\ errnum' = a.errnum
     /\ result' = r

\* { and } at the end of a line, as run_cmd_line takes them.
Open ==
  /\ AtCommand /\ Top.at > 1 /\ Here.op = "open"
  /\ IF result
     THEN /\ brace_nesting' = brace_nesting + 1
          /\ Ended(frames, TRUE, "", 0)
     ELSE errnum' = "brace" /\ UNCHANGED <<frames, result, brace_nesting>>
  /\ UNCHANGED <<prog, else_disabled, prog_pid, locals>>

Close ==
  /\ AtCommand /\ Top.at > 1 /\ Here.op = "close"
  /\ LeaveBlock
  /\ frames' = [frames EXCEPT ![Depth] =
       [@ EXCEPT !.at = Len(Line(Top)) + 1, !.ret = TRUE]]
  /\ errnum' = ""
  /\ UNCHANGED <<prog, result, prog_pid, locals>>

-----------------------------------------------------------------------------
(* if_func and else_func.  `Cleared` is what they leave of else_disabled    *)
(* when the rest of the command runs.                                       *)
Disabled == Here.test \in {"else", "else if"} /\ Bit \in else_disabled
Cleared == IF Here.test = "if" /\ brace_nesting = 0 THEN {} ELSE else_disabled

ElseSkipped ==
  /\ AtCommand /\ ~IsBrace(Here) /\ Disabled
  /\ errnum' = "brace" /\ result' = FALSE
  /\ UNCHANGED <<prog, frames, blocks, prog_pid, locals>>

TestFails ==
  /\ AtCommand /\ ~IsBrace(Here) /\ ~Disabled /\ Here.test \in {"if", "else if"}
  /\ Ended(frames, FALSE, "", 0)
  /\ else_disabled' = Cleared
  /\ UNCHANGED <<prog, brace_nesting, prog_pid, locals>>

Runs(op) == AtCommand /\ ~IsBrace(Here) /\ ~Disabled /\ Here.op = op

\* Commands that keep the state: "none" is a bare if or else, "echo" gives
\* true, "do" anything.
Gives(op, r, e) == /\ Runs(op)
                   /\ Ended(frames, r, e, 0)
                   /\ else_disabled' = Cleared
                   /\ UNCHANGED <<prog, brace_nesting, prog_pid, locals>>

Bare == Gives("none", TRUE, "")
Echo == Gives("echo", TRUE, "")
DoTrue == Gives("do", TRUE, "")
DoFalse == Gives("do", FALSE, "")
DoError == Gives("do", FALSE, "error")
Exit == Gives("exit", TRUE, "exit")
ExitN == Gives("stop", TRUE, "exit n")

Goto == /\ Runs("goto")
        /\ LET line == bat_find_label(Here.to)
           IN Ended(frames, line # 0, "goto", line)
        /\ else_disabled' = Cleared
        /\ UNCHANGED <<prog, brace_nesting, prog_pid, locals>>

\* Mutant: bc stays the caller's.
BeginSharing(frame) == /\ frames' = Append(frames, frame)
                       /\ brace_nesting' = 0 /\ else_disabled' = {}
                       /\ errnum' = ""
                       /\ UNCHANGED <<prog, result, locals>>
\* bat_run_script begins: the blocks of whoever called it are forgotten.
Begin(frame) == /\ frames' = Append(frames, frame)
                /\ brace_nesting' = 0 /\ else_disabled' = {}
                /\ bc' = Len(saved)
                /\ errnum' = ""
                /\ UNCHANGED <<prog, result, env, saved, sc>>

Call == /\ Runs("call") /\ bat_find_label(Here.to) # 0
        /\ Begin(Frame(bat_find_label(Here.to)))
        /\ UNCHANGED prog_pid
CallMissing == /\ Gives("call", FALSE, "error")
               /\ bat_find_label(Here.to) = 0

\* The file itself, as a command: command_func, grub_exec_run.
Run == /\ Runs("run") /\ prog_pid + 1 < MaxPid
       /\ prog_pid' = prog_pid + 1
       /\ Begin([Frame(1) EXCEPT !.script = TRUE])
RunTooDeep == /\ prog_pid + 1 >= MaxPid
              /\ Gives("run", FALSE, "")

-----------------------------------------------------------------------------
(* The user environment.                                                    *)
Set == /\ Runs("set")
       /\ env' \in Values
       /\ Ended(frames, TRUE, "", 0)
       /\ else_disabled' = Cleared
       /\ UNCHANGED <<prog, brace_nesting, prog_pid, saved, sc, bc>>

Setlocal(keep) ==
  /\ Runs(IF keep THEN "setlocal @" ELSE "setlocal") /\ Len(saved) < MaxSaved
  /\ saved' = Append(saved, env)
  /\ sc' = IF keep THEN Len(saved) + 1 ELSE sc
  /\ Ended(frames, TRUE, "", 0)
  /\ else_disabled' = Cleared
  /\ UNCHANGED <<prog, brace_nesting, prog_pid, env, bc>>

\* endlocal refuses to undo what the caller saved, and what @ keeps.
Refuses(keep) == Len(saved) = bc \/ Len(saved) = keep

Endlocal(unkeep) ==
  LET keep == IF unkeep THEN 0 ELSE sc
      refused == Refuses(keep)
  IN /\ Runs(IF unkeep THEN "endlocal @" ELSE "endlocal")
     /\ sc' = keep
     /\ IF refused THEN UNCHANGED <<env, saved>>
        ELSE env' = saved[Len(saved)] /\ saved' = Front(saved)
     /\ Ended(frames, ~refused, "", 0)
     /\ else_disabled' = Cleared
     /\ UNCHANGED <<prog, brace_nesting, prog_pid, bc>>

-----------------------------------------------------------------------------
(* The line is done: what bat_run_script makes of errnum.                   *)
LineDone == /\ frames # <<>> /\ ~Over(Top)
            /\ errnum = "brace" \/ Top.at > Len(Line(Top))
\* Where it goes on, 0 for nowhere.
GoOn == CASE errnum = "brace" -> Behind(Top.entry)
          [] errnum = "goto"  -> Top.target
          [] errnum = ""      -> Top.entry + 1
          [] OTHER            -> 0

NextLine ==
  /\ LineDone
  /\ errnum' = IF GoOn = 0 THEN errnum ELSE ""
  /\ frames' = [frames EXCEPT ![Depth] =
       IF GoOn = 0 THEN [@ EXCEPT !.at = 0]
       ELSE [@ EXCEPT !.entry = GoOn, !.at = 1, !.status = "", !.target = 0,
                      !.ret = @ /\ errnum # "brace"]]
  /\ UNCHANGED <<prog, result, blocks, prog_pid, locals>>

\* Ctrl-C, and Y to "Terminate batch job".
Interrupt ==
  /\ LineDone /\ errnum # "brace"
  /\ errnum' = "quit"
  /\ frames' = [frames EXCEPT ![Depth].at = 0]
  /\ UNCHANGED <<prog, result, blocks, prog_pid, locals>>

\* The loop over endlocal when a script ends: how many stay saved.
StaySaved == Max({i \in {bc, sc} : i <= Len(saved)})

EndScript ==
  /\ frames # <<>> /\ Over(Top)
  /\ saved' = SubSeq(saved, 1, StaySaved)
  /\ env' = IF Len(saved) > StaySaved THEN saved[StaySaved + 1] ELSE env
  /\ bc' = Top.saved_bc
  /\ prog_pid' = IF Top.script THEN prog_pid - 1 ELSE prog_pid
  /\ LET e == IF errnum = "exit" THEN "" ELSE errnum
     IN IF Depth = 1
        THEN frames' = <<>> /\ errnum' = e /\ UNCHANGED result
        ELSE Ended(Front(frames), e = "" /\ Top.ret, e, 0)
  /\ UNCHANGED <<prog, blocks, sc>>

-----------------------------------------------------------------------------
BatchInit ==
  /\ \E file \in Files : prog = Load(file)
  /\ frames = <<[entry |-> 1, at |-> 1, status |-> "", ret |-> FALSE,
                 target |-> 0, script |-> TRUE, saved_bc |-> 0, held |-> 0]>>
  /\ errnum = "" /\ result = FALSE
  /\ brace_nesting = 0 /\ else_disabled = {}
  /\ prog_pid = 1
  /\ env \in Values /\ saved = <<>> /\ sc = 0 /\ bc = 0

BatchNext ==
  \/ OpenLine \/ CloseLine \/ Open \/ Close
  \/ ElseSkipped \/ TestFails
  \/ Bare \/ Echo \/ DoTrue \/ DoFalse \/ DoError \/ Exit \/ ExitN
  \/ Goto \/ Call \/ CallMissing \/ Run \/ RunTooDeep
  \/ Set \/ \E keep \in BOOLEAN : Setlocal(keep) \/ Endlocal(keep)
  \/ NextLine \/ Interrupt \/ EndScript

BatchSpec == BatchInit /\ [][BatchNext]_batch_vars

-----------------------------------------------------------------------------
Bits == 0..(Word - 1)
BatchTypeOK ==
  /\ DOMAIN prog.entry = 1..(Count + 1) /\ Range(prog.label) \subseteq 1..(Count + 1)
  /\ \A f \in Range(frames) :
       /\ f.entry \in 1..(Count + 1) /\ f.at \in Nat
       /\ f.status \in LineOps \cup {""} /\ f.target \in 0..(Count + 1)
       /\ f.ret \in BOOLEAN /\ f.script \in BOOLEAN /\ f.saved_bc \in Nat
  /\ errnum \in {"", "error", "goto", "brace", "exit", "exit n", "quit"}
  /\ result \in BOOLEAN
  /\ brace_nesting \in Int /\ else_disabled \subseteq Bits
  /\ prog_pid \in 0..(MaxPid - 1)
  /\ env \in Values /\ saved \in Seq(Values)
  /\ sc \in 0..Len(saved) /\ bc \in 0..Len(saved)

(***************************************************************************)
(* A script does what BatchBlocks says: the block of a chain that runs is  *)
(* the first whose test held, blocks nest, a goto goes to its label, a call *)
(* comes back to the command after it, and an error, an exit or Ctrl-C ends *)
(* what it should and nothing else.                                         *)
(***************************************************************************)
Jumping == errnum = "goto" /\ frames # <<>> /\ Top.target # 0
Stopped == IF errnum = "brace" \/ Jumping THEN "" ELSE errnum
Position(i) ==
  IF i < Depth THEN prog.entry[frames[i].entry] + frames[i].at - 1
  ELSE CASE Stopped # "" \/ Over(Top) -> Len(text) + 1
         [] Jumping                   -> prog.entry[Top.target]
         [] OTHER                     -> prog.entry[Top.entry] + Top.at - 1
GoesOn(p) == p <= Len(text) /\ text[p].test \in {"else", "else if"}
Activation(i) ==
  [pos |-> Position(i),
   result |-> i = Depth /\ frames[i].ret,
   chosen |-> i = Depth /\ GoesOn(Position(i)) /\ Bit \in else_disabled,
   nested |-> Cardinality({j \in 1..i : frames[j].script})]

Blocks == INSTANCE BatchBlocks
  WITH MaxScripts <- MaxPid - 1,
       code <- text,
       labels <- [name \in DOMAIN prog.label |-> prog.entry[prog.label[name]]],
       calls <- [i \in DOMAIN frames |-> Activation(i)],
       stop <- Stopped
ImplementsBlocks == Blocks!Spec

(***************************************************************************)
(* What a script saved with setlocal is undone when it ends, down to the    *)
(* last setlocal @, and nobody undoes what his caller saved: SETLOCAL and   *)
(* ENDLOCAL as in Windows, and the two notes on @ in ChangeLog_chenall.txt. *)
(***************************************************************************)
LocalsScoped ==
  [][/\ \A f \in Range(frames) : \A i \in 1..f.held :
          i \in DOMAIN saved' /\ saved'[i] = saved[i]
     /\ Len(frames') < Depth =>
          LET floor == Max({Top.held, sc})
          IN /\ saved' = SubSeq(saved, 1, floor)
             /\ env' = IF Len(saved) > floor THEN saved[floor + 1] ELSE env
    ]_batch_vars
=============================================================================
