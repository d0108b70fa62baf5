---------------------------- MODULE BatchBlocks ----------------------------
(***************************************************************************)
(* What a batch script means: ChangeLog_chenall.txt (if, else, { }, nested *)
(* as one likes), README_GRUB4DOS.txt (&&, ||, ;;, goto, call, exit, "Batch *)
(* will stop when an error occurs") and README_GRUB4DOS_CN.txt (&;, |;).   *)
(*                                                                         *)
(* The script is its commands one after another, whatever the lines they   *)
(* are on.  A command is a record:                                         *)
(*   test  "if", "else", "else if" or ""                                   *)
(*   op    what it does, "open" and "close" for the braces                 *)
(*   to    for goto and call, the name of a label                          *)
(*   then  the operator that follows it on its line, "" without one        *)
(***************************************************************************)
EXTENDS Naturals, Sequences, FiniteSets, FiniteSetsExt

CONSTANT MaxScripts    \* scripts that may run inside one another

VARIABLES
  code,    \* the commands of the script
  labels,  \* labels[name]: the command after the label
  calls,   \* the scripts and subroutines that run, the innermost last
  stop     \* why they end early: "error", "goto" (no such label), "exit",
           \* "exit n", "quit" (Ctrl-C), or ""

script == <<code, labels>>
vars == <<script, calls, stop>>

InLine == {"&&", "||"}         \* their commands are expanded together
Errors == {"", "error", "goto", "exit", "exit n", "quit"}

\* Does `then` let the next command run after one that gave r?
Passes(then, r) == \/ then \in {"", ";;"}
                   \/ then \in {"&&", "&;"} /\ r
                   \/ then \in {"||", "|;"} /\ ~r

\* An operator hides an error of the command before it: && and || all but
\* Ctrl-C, the others leave "exit n" too.
Stops(then, e) == \/ e # "" /\ then = ""
                  \/ e = "quit"
                  \/ e = "exit n" /\ then \notin InLine

\* From p on, the end of the commands joined by && and ||, and the place
\* after the next ;; of the line.
GroupEnd(p) == Min({g \in p..Len(code) : code[g].then \notin InLine})
AfterSemicolons(p) == 1 + Min({q \in p..Len(code) : code[q].then \in {";;", ""}})

\* Where to go on after the command at p gave r.
Advance(p, r) ==
  LET g == GroupEnd(p)
  IN IF code[p].then \in InLine /\ Passes(code[p].then, r) THEN p + 1
     ELSE IF Passes(code[g].then, r) THEN g + 1
     ELSE AfterSemicolons(g + 1)

\* The brace that closes the one at p.
Braces(b, p, q) == Cardinality({i \in p..q : code[i].op = b})
Match(p) == Min({q \in p..Len(code) : Braces("open", p, q) = Braces("close", p, q)})

\* Position p goes on with the chain of the block before it.
GoesOn(p) == p <= Len(code) /\ code[p].test \in {"else", "else if"}

-----------------------------------------------------------------------------
\* pos: the next command; result: what the last one gave; chosen: a block of
\* the chain that goes on here has run; nested: the number of scripts.
Frame(p, n) == [pos |-> p, result |-> FALSE, chosen |-> FALSE, nested |-> n]

Init == /\ code \in Seq([test : STRING, op : STRING, to : STRING, then : STRING])
        /\ \A name \in DOMAIN labels : labels[name] \in 1..(Len(code) + 1)
        /\ calls = <<Frame(1, 1)>>
        /\ stop = ""

Depth == Len(calls)
Top == calls[Depth]
Here == code[Top.pos]
Known(name) == name = "eof" \/ name \in DOMAIN labels
Place(name) == IF name = "eof" THEN Len(code) + 1 ELSE labels[name]
Running == calls # <<>> /\ stop = "" /\ Top.pos <= Len(code)

\* The innermost of `stack` goes on after its command gave r and e.
Go(stack, r, e) ==
  LET n == Len(stack)
      f == stack[n]
      stopped == Stops(code[f.pos].then, e)
  IN /\ stop' = IF stopped THEN e ELSE ""
     /\ calls' = [stack EXCEPT ![n] =
          [f EXCEPT !.pos = IF stopped THEN Len(code) + 1 ELSE Advance(f.pos, r),
                    !.result = r, !.chosen = FALSE]]
     /\ UNCHANGED script

MoveTo(p, r, c) == /\ calls' = [calls EXCEPT ![Depth] =
                        [@ EXCEPT !.pos = p, !.result = r, !.chosen = c]]
                   /\ UNCHANGED <<script, stop>>

\* else and else if after a block that has run: their own is passed over.
PassOver == /\ Running /\ GoesOn(Top.pos) /\ Top.chosen
            /\ LET p == Match(Top.pos + 1) + 1 IN MoveTo(p, FALSE, GoesOn(p))

MayRun == Running /\ ~(GoesOn(Top.pos) /\ Top.chosen)

TestFails == /\ MayRun /\ Here.test \in {"if", "else if"}
             /\ Go(calls, FALSE, "")

Open == /\ Running /\ Here.op = "open"
        /\ IF Top.result THEN MoveTo(Top.pos + 1, TRUE, FALSE)
           ELSE MoveTo(Match(Top.pos) + 1, FALSE, FALSE)

\* What a closing brace gives is left open.
Close == /\ Running /\ Here.op = "close"
         /\ \E r \in BOOLEAN : MoveTo(Top.pos + 1, r, GoesOn(Top.pos + 1))

\* What the commands may give: truth and error.
Outcomes(op) ==
  CASE op = "do"   -> {<<TRUE, "">>, <<FALSE, "">>, <<FALSE, "error">>}
    [] op = "exit" -> {<<TRUE, "exit">>}
    [] op = "stop" -> {<<TRUE, "exit n">>}
    [] op \in {"endlocal", "endlocal @"} -> {<<TRUE, "">>, <<FALSE, "">>}
    [] OTHER       -> {<<TRUE, "">>}

Command == /\ MayRun /\ Here.op \notin {"open", "close", "goto", "call", "run"}
           /\ \E o \in Outcomes(Here.op) : Go(calls, o[1], o[2])

Goto == /\ MayRun /\ Here.op = "goto"
        /\ IF Known(Here.to) THEN MoveTo(Place(Here.to), TRUE, FALSE)
           ELSE Go(calls, FALSE, "goto")

\* A subroutine, or the script once more; one too many gives false.
Call == /\ MayRun /\ Here.op = "call"
        /\ IF Known(Here.to)
           THEN /\ calls' = Append([calls EXCEPT ![Depth].result = FALSE],
                                   Frame(Place(Here.to), Top.nested))
                /\ UNCHANGED <<script, stop>>
           ELSE Go(calls, FALSE, "error")

Run == /\ MayRun /\ Here.op = "run"
       /\ IF Top.nested = MaxScripts THEN Go(calls, FALSE, "")
          ELSE /\ calls' = Append([calls EXCEPT ![Depth].result = FALSE],
                                  Frame(1, Top.nested + 1))
               /\ UNCHANGED <<script, stop>>

\* The innermost one is over: `exit` ends only that one.
Return == /\ calls # <<>> /\ Top.pos > Len(code)
          /\ LET e == IF stop = "exit" THEN "" ELSE stop
             IN IF Depth = 1
                THEN calls' = <<>> /\ stop' = e /\ UNCHANGED script
                ELSE Go(SubSeq(calls, 1, Depth - 1), e = "" /\ Top.result, e)

\* Ctrl-C ends everything.
Interrupt == /\ calls # <<>>
             /\ stop' = "quit"
             /\ calls' = [calls EXCEPT ![Depth] =
                  [@ EXCEPT !.pos = Len(code) + 1, !.chosen = FALSE]]
             /\ UNCHANGED script

Next == \/ PassOver \/ TestFails \/ Open \/ Close \/ Command \/ Goto
        \/ Call \/ Run \/ Return \/ Interrupt

Spec == Init /\ [][Next]_vars
=============================================================================
