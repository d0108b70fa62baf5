---------------------------- MODULE MCBatchRun ----------------------------
(* Small scripts for BatchRun.  A script is named by what it is built of,  *)
(* so that the states stay small.                                          *)
EXTENDS BatchRun

Cmd(test, op, to, then) == [test |-> test, op |-> op, to |-> to, then |-> then]
C(op) == Cmd("", op, "", "")
If(op) == Cmd("if", op, "", "")
Then(op, then) == Cmd("", op, "", then)
Jump(op, to) == Cmd("", op, to, "")
Label(name) == <<Cmd("", "label", name, "")>>
Echo1 == <<<<C("echo")>>>>

-----------------------------------------------------------------------------
(* Chains.  An arm is <<test, body, layout>>; its braces are on lines of    *)
(* their own or at the ends of lines.                                       *)
Layouts == {"own lines", "line ends", "open own", "close own"}
ArmLines(test, body, layout) ==
  LET head == Cmd(test, "none", "", "")
  IN (IF layout \in {"own lines", "open own"} THEN <<<<head>>, <<C("open")>>>>
      ELSE <<<<head, C("open")>>>>) \o
     (IF layout \in {"own lines", "close own"} THEN Append(body, <<C("close")>>)
      ELSE Append(Front(body), Append(Last(body), C("close"))))

ChainLines(chain, Body(_)) ==
  FlattenSeq([i \in DOMAIN chain |->
                ArmLines(chain[i][1], Body(chain[i][2]), chain[i][3])])

\* if; if else; if else-if; if else-if else.
Tests == {<<"if">>, <<"if", "else">>, <<"if", "else if">>,
          <<"if", "else if", "else">>}
ChainsOf(bodies, layouts) ==
  UNION {{[i \in DOMAIN t |-> <<t[i], b[i], l>>] :
            b \in [DOMAIN t -> bodies], l \in layouts} : t \in Tests}

\* Bodies: a command, or a chain inside with a command before and after it.
Bodies1 == {"echo"} \cup Layouts
Body0(b) == Echo1
Body1(b) == IF b = "echo" THEN Echo1
            ELSE Echo1 \o ChainLines(<<<<"if", "echo", b>>, <<"else", "echo", b>>>>, Body0)
                 \o Echo1
NestScript(k) == ChainLines(k[2], Body1) \o ChainLines(<<<<"if", "echo", k[3]>>,
                                            <<"else", "echo", k[3]>>>>, Body0)
Nests == {"nest"} \X ChainsOf(Bodies1, Layouts) \X {"own lines", "line ends"}

-----------------------------------------------------------------------------
(* Lines of several commands, jumps, calls, errors, the script again.       *)
Middles ==
  << <<<<C("do")>>>>,
     <<<<Then("do", "&&"), Then("do", "||"), C("echo")>>>>,
     <<<<Then("do", "&;"), Then("do", ";;"), C("do")>>>>,
     <<<<Then("do", "|;"), Then("do", "&&"), Then("do", ";;"), C("do")>>>>,
     <<<<Jump("call", "sub")>>, <<C("echo")>>>>,
     <<<<Cmd("if", "call", "sub", "||"), C("echo")>>>>,
     <<<<Cmd("", "call", "sub", "&;"), C("echo")>>>>,
     <<<<Jump("goto", "none")>>>>,
     <<<<Cmd("if", "call", "none", "")>>>>,
     <<<<Cmd("if", "goto", "top", "")>>>>,
     <<<<Jump("run", "")>>, <<C("echo")>>>>,
     <<<<If("run")>>, <<C("exit")>>>> >>
Subs ==
  << <<<<C("do")>>>>,
     <<<<If("exit")>>, <<C("echo")>>>>,
     <<<<Cmd("if", "goto", "eof", "")>>, <<C("do")>>, <<C("stop")>>>>,
     ChainLines(<<<<"if", "echo", "own lines">>, <<"else", "echo", "line ends">>>>,
                Body0) >>
MixScript(k) ==
  <<Label("top")>> \o ChainLines(k[2], Body0) \o Middles[k[3]] \o
  <<<<Jump("goto", "eof")>>, Label("sub")>> \o Subs[k[4]]
Mixes == {"mix"} \X ({<<>>} \cup ChainsOf({"echo"}, {"line ends"}))
         \X (DOMAIN Middles) \X (DOMAIN Subs)

-----------------------------------------------------------------------------
(* setlocal and endlocal in a script and its subroutine.                    *)
LocalOps == {"set", "setlocal", "endlocal", "setlocal @", "endlocal @"}
Ops(f) == [i \in DOMAIN f |-> <<C(f[i])>>]
LocalScript(k) ==
  Ops(k[2]) \o <<<<Jump("call", "sub")>>, <<C(k[3])>>, <<Jump("goto", "eof")>>,
                 Label("sub")>> \o Ops(k[4])
LocalKeys == {"local"} \X [1..2 -> LocalOps] \X LocalOps \X [1..2 -> LocalOps]

-----------------------------------------------------------------------------
Script(k) == CASE k[1] = "nest"  -> NestScript(k)
               [] k[1] = "mix"   -> MixScript(k)
               [] k[1] = "local" -> LocalScript(k)
All == {Script(k) : k \in Nests \cup Mixes \cup LocalKeys}

-----------------------------------------------------------------------------
(* Scripts that do not do what BatchBlocks says.                            *)
Block(body) == ArmLines("if", body, "own lines")
IfElse == ChainLines(<<<<"if", "echo", "own lines">>, <<"else", "echo", "own lines">>>>,
                     Body0)
EndAnd(sub) == <<<<Jump("goto", "eof")>>, Label("sub")>> \o sub

\* Two chains in one block.
TwoChains == {Block(IfElse \o IfElse)}
\* A call in a block, and an if with an else after it.
CallInBlock == {Block(<<<<Jump("call", "sub")>>>>) \o IfElse \o IfElse \o EndAnd(Echo1)}
\* A goto out of a block.
GotoOut == {Block(<<<<Jump("goto", "out")>>>>) \o <<Label("out")>> \o IfElse \o IfElse}
\* goto and exit before a brace on their line; a command that fails there.
BeforeBrace ==
  {ArmLines("if", <<<<c>>>>, "line ends") \o Echo1 :
     c \in {Jump("goto", "eof"), C("exit"), C("do")}}
\* The end of the block is skipped with the rest of the line.
BraceSkipped ==
  {ArmLines("if", <<<<Then("echo", "&;"), C("do")>>>>, "line ends") \o IfElse}
=============================================================================
