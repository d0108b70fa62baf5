------------------------------ MODULE MenuFlow ------------------------------
(***************************************************************************)
(* The menu: what cmain does with a menu file once it is parsed (the       *)
(* commands default, fallback, timeout and hiddenmenu, the check of the    *)
(* fallback list and of the default entry), run_menu with its countdown,   *)
(* its keys, its editor and its loop over fallback entries, run_script,    *)
(* and savedefault, whose number outlives a reset of the machine.          *)
(*                                                                         *)
(* A menu is a record: bootable[e + 1] is bit 0 of the attribute byte of   *)
(* entry e (entries count from 0), control is menu_num_ctrl[0], labels     *)
(* holds the number each title starts with (-1: none), default is -1 for   *)
(* "default saved", fallback the numbers given to "fallback", timeout -1   *)
(* for none, hidden "no", "any" key unhides or "chkpass" (only the key of  *)
(* --chkpass does), script the commands of each entry, fate what becomes   *)
(* of a kernel that an entry boots, and keys (a bound) what a user presses.*)
(***************************************************************************)
EXTENDS Integers, Sequences, SequencesExt

CONSTANTS
  Menus,                   \* the menus the machine may hold
  MENU_BOX_H,              \* rows of the menu box
  MAX_FALLBACK_ENTRIES,    \* length of fallback_entries
  Digits,                  \* the digits a user types
  MaxLines,                \* bound: lines of an edited entry
  MaxResets                \* bound: resets from outside

Size(m) == Len(m.bootable)                  \* the entries of a menu
Fates == {"runs", "crashes", "fails"}       \* what a booted kernel may do

\* A menu file with commands of the kinds that are modelled. (One without an
\* entry gives a command line, and no more than 256 are read.)
IsMenu(m) ==
  /\ m.bootable \in Seq(BOOLEAN) /\ Size(m) \in 1 .. 256
  /\ DOMAIN m.script = 1 .. Size(m) /\ DOMAIN m.fate = 1 .. Size(m)
  /\ \A e \in 1 .. Size(m) :
       /\ m.script[e] \in Seq(Range(m.script[e])) /\ Len(m.script[e]) <= MaxLines
       /\ \A c \in Range(m.script[e]) :
            c.op # "titles" /\ (c.op \in {"fallback", "go"} => c.args \in Seq(Nat))
       /\ m.fate[e] \in Fates
  /\ m.fallback \in Seq(Nat) /\ m.default \in Nat \cup {-1} /\ m.timeout \in Nat \cup {-1}

ASSUME MenuAssumption ==
  /\ MENU_BOX_H \in Nat \ {0}
  /\ MAX_FALLBACK_ENTRIES \in Nat \ {0}
  /\ Digits \subseteq Nat /\ MaxLines \in Nat /\ MaxResets \in Nat
  /\ \A m \in Menus : IsMenu(m)

VARIABLES
  menu,        \* the menu file
  phase,       \* where the program is
  view,        \* first_entry and entryno of the menu shown
  num,         \* num_entries
  fallbacks,   \* fallback_entries
  fallbackno,  \* fallback_entryno
  default,     \* default_entry
  timeout,     \* grub_timeout
  showMenu,    \* show_menu
  tempNum,     \* temp_num: the number typed so far
  outer,       \* the view of the menu while an entry of it is edited
  lines,       \* the commands of the edited entry
  script,      \* the commands run_script has still to run
  kernel,      \* kernel_type is not KERNEL_TYPE_NONE
  current,     \* current_entryno
  count,       \* fallbacked_entries, or the index of the fallback check
  saved,       \* the number in the default file, on disk
  hist         \* history for the properties: keyed, tried, wanted, resets

vars == <<menu, phase, view, num, fallbacks, fallbackno, default, timeout,
          showMenu, tempNum, outer, lines, script, kernel, current, count,
          saved, hist>>
shown == <<view, num, tempNum, outer, lines>>
plan  == <<fallbacks, fallbackno>>
going == <<script, kernel, current, count>>
fixed == <<menu, default, saved>>

NoView == [first |-> -1, entry |-> -1]
Editing == outer # NoView
Here == view.first + view.entry
Keyed == [hist EXCEPT !.keyed = TRUE, !.tried = <<>>]
NoFallbacks == [k \in 0 .. MAX_FALLBACK_ENTRIES - 1 |-> -1]

----------------------------------------------------------------------------
(* Numbers and lists *)

\* title_boot: an entry's number is the count of bootable entries before it;
\* the list ends with the largest short.
title_boot(m, e) ==
  IF e >= Size(m) THEN 65535
  ELSE Cardinality({d \in 1 .. e : m.bootable[d]})

\* The entry a typed number n stands for: the last of those with number n if
\* the menu numbers bootable entries, the entry itself if it numbers all, the
\* first with that label otherwise; where there is none, the entry itself.
EntryNumbered(n) ==
  CASE menu.control = 1 ->
         LET same == {e \in n .. MaxLines + Size(menu) :
                        \A d \in n + 1 .. e : title_boot(menu, d) <= n}
             last == CHOOSE e \in same : e + 1 \notin same
         IN  IF title_boot(menu, last) = n THEN last ELSE n
    [] menu.control = 2 -> n
    [] OTHER ->
         LET same == {e \in 0 .. num - 1 :
                        ~Editing /\ n > 0 /\ menu.labels[e + 1] = n}
         IN  IF same = {} THEN n
             ELSE CHOOSE e \in same : \A d \in same : e <= d

\* fallback_func: the numbers replace the head of the list. A number that is
\* in it already is not stepped over: what follows is read as an error.
FallbackRead(args) ==
  LET again == {i \in 1 .. Len(args) :
                  i <= MAX_FALLBACK_ENTRIES /\ \E j \in 1 .. i - 1 : args[j] = args[i]}
      stop  == IF again = {} THEN Len(args) + 1
               ELSE CHOOSE i \in again : \A j \in again : i <= j
  IN  [kept |-> SubSeq(args, 1, IF stop > MAX_FALLBACK_ENTRIES
                                THEN MAX_FALLBACK_ENTRIES ELSE stop - 1),
       err  |-> stop < Len(args)]

FallbackFunc(list, no, args) ==
  LET read == FallbackRead(args)
      n == Len(read.kept)
  IN  [ok   |-> ~read.err,
       list |-> [k \in DOMAIN list |->
                   IF k < n THEN read.kept[k + 1]
                   ELSE IF k = n /\ ~read.err THEN -1 ELSE list[k]],
       no   |-> IF read.err THEN no ELSE IF n = 0 THEN -1 ELSE 0]

\* The entry after index no of the list, -1 at its end.
After(list, no) ==
  IF no + 1 >= MAX_FALLBACK_ENTRIES \/ list[no + 1] < 0 THEN -1 ELSE no + 1

\* A slip: the entry itself, not the one after it.
NextFallback_Same(list, e) ==
  LET there == {k \in DOMAIN list : list[k] = e}
  IN  list[IF there = {} THEN 0 ELSE CHOOSE k \in there : \A j \in there : k <= j]

\* A slip: the current entry is not looked for.
NextFallback_First(list, e) == list[0]

\* What "savedefault fallback" saves: the entry after the current one in the
\* list, its first if the current one is not there; -1: an error, not saved.
NextFallback(list, e) ==
  LET there == {k \in DOMAIN list : list[k] = e /\ \A j \in 0 .. k : list[j] >= 0}
      index == IF there = {} THEN 0
               ELSE 1 + CHOOSE k \in there : \A j \in there : k <= j
  IN  IF index >= MAX_FALLBACK_ENTRIES THEN -1 ELSE list[index]

----------------------------------------------------------------------------
(* cmain: the menu file *)

Init ==
  /\ menu \in Menus
  /\ phase = "load"
  /\ view = [first |-> 0, entry |-> 0] /\ num = 0
  /\ fallbacks = NoFallbacks /\ fallbackno = -1
  /\ default = 0 /\ timeout = -1 /\ showMenu = TRUE
  /\ tempNum = 0 /\ outer = NoView /\ lines = <<>>
  /\ script = <<>> /\ kernel = FALSE /\ current = 0 /\ count = 0
  /\ saved = 0
  /\ hist = [keyed |-> FALSE, tried |-> <<>>, wanted |-> 0, resets |-> 0]

\* reset, the entries and the menu commands.
LoadMenu ==
  /\ phase = "load"
  /\ LET list == FallbackFunc([fallbacks EXCEPT ![0] = -1], -1, menu.fallback)
         d == IF menu.default = -1 THEN saved ELSE menu.default
     IN  /\ fallbacks' = list.list /\ fallbackno' = list.no
         /\ default' = d
         /\ hist' = [hist EXCEPT !.keyed = FALSE, !.tried = <<>>, !.wanted = d]
  /\ num' = Size(menu)
  /\ timeout' = menu.timeout
  /\ showMenu' = (showMenu /\ menu.hidden = "no")
  /\ count' = 0
  /\ phase' = "check"
  /\ UNCHANGED <<menu, view, tempNum, outer, lines, script, kernel, current, saved>>

Checking == fallbackno >= 0 /\ count < MAX_FALLBACK_ENTRIES /\ fallbacks[count] >= 0


\* A slip: the copy starts one entry too high.
CheckFallback_KeepsIt ==
  /\ phase = "check" /\ Checking
  /\ IF fallbacks[count] >= num
     THEN /\ fallbacks' = [k \in DOMAIN fallbacks |->
                             IF k > count /\ k + 1 \in DOMAIN fallbacks
                             THEN fallbacks[k + 1] ELSE fallbacks[k]]
          /\ UNCHANGED count
     ELSE count' = count + 1 /\ UNCHANGED fallbacks
  /\ UNCHANGED <<fixed, shown, phase, fallbackno, timeout, showMenu, script, kernel,
                 current, hist>>

\* One turn of the loop over the fallback list: an entry the menu does not
\* have is overwritten by the rest of the list.
CheckFallback ==
  /\ phase = "check" /\ Checking
  /\ IF fallbacks[count] >= num
     THEN /\ fallbacks' = [k \in DOMAIN fallbacks |->
                             IF k >= count /\ k + 1 \in DOMAIN fallbacks
                             THEN fallbacks[k + 1] ELSE fallbacks[k]]
          /\ UNCHANGED count
     ELSE count' = count + 1 /\ UNCHANGED fallbacks
  /\ UNCHANGED <<fixed, shown, phase, fallbackno, timeout, showMenu, script, kernel,
                 current, hist>>


\* A slip: the entry that became the default stays the next fallback.
CheckDefault_NotConsumed ==
  /\ phase = "check" /\ ~Checking
  /\ LET no == IF fallbacks[0] < 0 THEN -1 ELSE fallbackno
     IN  /\ default' = IF default < num THEN default
                       ELSE IF no >= 0 THEN fallbacks[0] ELSE 0
         /\ fallbackno' = no
  /\ view' = [first |-> 0, entry |-> default']
  /\ phase' = "restart"
  /\ UNCHANGED <<menu, num, fallbacks, timeout, showMenu, tempNum, outer, lines,
                 going, saved, hist>>

\* The end of the check; a default entry the menu does not have gives way to
\* the first fallback entry.
CheckDefault ==
  /\ phase = "check" /\ ~Checking
  /\ LET no == IF fallbacks[0] < 0 THEN -1 ELSE fallbackno
         ok == default < num
     IN  /\ default' = IF ok THEN default ELSE IF no >= 0 THEN fallbacks[0] ELSE 0
         /\ fallbackno' = IF ~ok /\ no >= 0 THEN After(fallbacks, no) ELSE no
  /\ view' = [first |-> 0, entry |-> default']
  /\ phase' = "restart"
  /\ UNCHANGED <<menu, num, fallbacks, timeout, showMenu, tempNum, outer, lines,
                 going, saved, hist>>

----------------------------------------------------------------------------
(* run_menu: the countdown *)

\* restart1: the box scrolls to the entry, the menu is shown or stays hidden.
Restart ==
  /\ phase = "restart"
  /\ view' = IF view.entry > MENU_BOX_H - 1
             THEN [first |-> view.first + view.entry - (MENU_BOX_H - 1),
                   entry |-> MENU_BOX_H - 1]
             ELSE view
  /\ tempNum' = 0
  /\ showMenu' = (showMenu \/ timeout < 0)
  /\ phase' = IF showMenu' THEN "menu" ELSE "hidden"
  /\ UNCHANGED <<fixed, num, plan, timeout, outer, lines, going, hist>>

Second ==
  /\ phase \in {"menu", "hidden"} /\ timeout > 0
  /\ timeout' = timeout - 1
  /\ UNCHANGED <<fixed, shown, phase, plan, showMenu, going, hist>>

BootEntry(commands) ==
  /\ timeout' = -1
  /\ count' = 0
  /\ script' = commands
  /\ phase' = "boot"

\* The commands that are run: those of the highlighted entry unless an edited
\* list is booted.
FromTitles == <<[op |-> "titles"]>>

Timeout ==
  /\ phase \in {"menu", "hidden"} /\ timeout = 0
  /\ BootEntry(FromTitles)
  /\ UNCHANGED <<fixed, shown, plan, showMenu, kernel, current, hist>>

\* A key while the menu is hidden shows it, unless another key is asked for.
KeyWhileHidden ==
  /\ phase = "hidden"
  /\ hist' = Keyed
  /\ \/ timeout' = -1 /\ showMenu' = TRUE /\ phase' = "menu"
        /\ UNCHANGED <<count, script>>
     \/ menu.hidden = "chkpass" /\ BootEntry(FromTitles) /\ UNCHANGED showMenu
  /\ UNCHANGED <<fixed, shown, plan, kernel, current>>

----------------------------------------------------------------------------
(* run_menu: the keys *)

\* A key ends the countdown and with it the unattended boot.
KeyDone ==
  /\ phase = "menu"
  /\ timeout' = -1
  /\ fallbackno' = IF timeout >= 0 THEN -1 ELSE fallbackno
  /\ hist' = Keyed

Pressed(k) == k \in menu.keys /\ KeyDone

\* check_update: the page of the entry unless it is on the screen.
MovedTo(e) ==
  IF e >= view.first /\ e < view.first + MENU_BOX_H
  THEN [view EXCEPT !.entry = e - view.first]
  ELSE [first |-> (e \div MENU_BOX_H) * MENU_BOX_H, entry |-> e % MENU_BOX_H]

\* The nearest entry in a direction that has a bootable command, if any but
\* the highlighted one has; the lines of an edited entry all count.
NextBootable(step) ==
  LET at(i) == (Here + step * i) % num
      good == {i \in 1 .. num - 1 : Editing \/ menu.bootable[at(i) + 1]}
  IN  IF good = {} THEN Here
      ELSE at(CHOOSE i \in good : \A j \in good : i <= j)

PageUp ==
  LET f == view.first - MENU_BOX_H
  IN  IF f >= 0 THEN [view EXCEPT !.first = f]
      ELSE [first |-> 0, entry |-> IF view.entry + f < 0 THEN 0 ELSE view.entry + f]


\* A slip: the last entry counted from 1.
PageDown_OneTooFar ==
  LET f == view.first + MENU_BOX_H
      end == IF num > MENU_BOX_H THEN num - MENU_BOX_H ELSE 0
  IN  IF f + view.entry + 1 >= num THEN [first |-> end, entry |-> num - end]
      ELSE [view EXCEPT !.first = f]

PageDown ==
  LET f == view.first + MENU_BOX_H
      end == IF num > MENU_BOX_H THEN num - MENU_BOX_H ELSE 0
  IN  IF f + view.entry + 1 >= num THEN [first |-> end, entry |-> num - end - 1]
      ELSE [view EXCEPT !.first = f]

StepUp ==
  IF view.entry > 0 THEN [view EXCEPT !.entry = @ - 1]
  ELSE IF view.first > 0 THEN [view EXCEPT !.first = @ - 1]
  ELSE MovedTo(num - 1)

StepDown ==
  IF Here + 1 >= num THEN MovedTo(0)
  ELSE IF view.entry < MENU_BOX_H - 1 THEN [view EXCEPT !.entry = @ + 1]
  ELSE [view EXCEPT !.first = @ + 1]

Moved(k) ==
  CASE num = 0 -> [first |-> 0, entry |-> 0]
    [] num > 0 /\ k = "UP" -> MovedTo(NextBootable(-1))
    [] num > 0 /\ k = "DOWN" -> MovedTo(NextBootable(1))
    [] num > 0 /\ k = "LEFT" -> StepUp
    [] num > 0 /\ k = "RIGHT" -> StepDown
    [] num > 0 /\ k = "PPAGE" -> PageUp
    [] num > 0 /\ k = "NPAGE" -> PageDown
    [] num > 0 /\ k = "HOME" -> MovedTo(0)
    [] num > 0 /\ k = "END" -> MovedTo(num - 1)

Move(k) ==
  /\ k \in {"UP", "DOWN", "LEFT", "RIGHT", "PPAGE", "NPAGE", "HOME", "END"}
  /\ Pressed(k)
  /\ view' = Moved(k)
  /\ UNCHANGED <<fixed, phase, num, fallbacks, showMenu, tempNum, outer, lines, going>>

\* A digit continues the number typed, or starts anew where that is too big.
Typed(d) ==
  IF tempNum * 10 + d < num THEN tempNum * 10 + d ELSE IF d >= num THEN 0 ELSE d

Digit(d) ==
  /\ num > 0
  /\ Pressed("DIGIT")
  /\ tempNum' = Typed(d)
  /\ view' = IF tempNum' # 0 \/ d = 0 THEN MovedTo(EntryNumbered(tempNum')) ELSE view
  /\ UNCHANGED <<fixed, phase, num, fallbacks, showMenu, outer, lines, going>>

\* Return in the menu boots the highlighted entry, 'b' in the editor the
\* edited list.
Boot ==
  /\ Pressed("BOOT")
  /\ BootEntry(IF Editing THEN lines ELSE FromTitles)
  /\ UNCHANGED <<fixed, shown, fallbacks, showMenu, kernel, current>>

----------------------------------------------------------------------------
(* run_menu: the editor, run_menu called by itself on a copy of the commands *)

Edit ==
  /\ ~Editing /\ num > 0
  /\ Pressed("EDIT")
  /\ outer' = view
  /\ lines' = menu.script[Here + 1]
  /\ num' = Len(lines')
  /\ view' = [first |-> 0, entry |-> 0]
  /\ phase' = "restart"
  /\ UNCHANGED <<fixed, fallbacks, showMenu, tempNum, going>>

\* The highlight may have left the edited list (see the README): what 'o', 'O'
\* and 'd' do to memory then is not modelled.
InEditor == Editing /\ (num = 0 \/ Here < num)

\* 'o' and 'O': an empty line after or before the highlighted one.
InsertLine(k) ==
  /\ k \in {"AFTER", "BEFORE"} /\ num < MaxLines
  /\ InEditor
  /\ Pressed(k)
  /\ LET v == IF num = 0 THEN [first |-> 0, entry |-> 0] ELSE view
     IN  view' = IF k = "BEFORE" \/ num = 0 THEN v
                 ELSE IF v.entry < MENU_BOX_H - 1 THEN [v EXCEPT !.entry = @ + 1]
                 ELSE [v EXCEPT !.first = @ + 1]
  /\ lines' = InsertAt(lines, view'.first + view'.entry + 1, [op |-> "nothing"])
  /\ num' = num + 1
  /\ UNCHANGED <<fixed, phase, fallbacks, showMenu, tempNum, outer, going>>

\* 'd'
DeleteLine ==
  /\ InEditor /\ num > 0
  /\ Pressed("DELETE")
  /\ lines' = RemoveAt(lines, Here + 1)
  /\ num' = num - 1
  /\ view' = IF view.entry > 0 THEN [view EXCEPT !.entry = @ - 1]
             ELSE IF view.first > 0 THEN [view EXCEPT !.first = @ - 1]
             ELSE view
  /\ UNCHANGED <<fixed, phase, fallbacks, showMenu, tempNum, outer, going>>

\* Escape returns to the menu.
LeaveEditor ==
  /\ Editing
  /\ Pressed("ESC")
  /\ view' = outer /\ outer' = NoView
  /\ num' = Size(menu) /\ lines' = <<>>
  /\ phase' = "restart"
  /\ UNCHANGED <<fixed, fallbacks, showMenu, tempNum, going>>

----------------------------------------------------------------------------
(* boot_entry: the loop over the entry and its fallbacks *)

ToMenu == showMenu' = TRUE /\ phase' = "restart"

BootTurn ==
  /\ phase = "boot"
  /\ current' = Here
  /\ IF Here >= num
     THEN ToMenu /\ UNCHANGED <<script, kernel, hist>>
     ELSE /\ script' = IF script = FromTitles THEN menu.script[Here + 1] ELSE script
          /\ kernel' = FALSE
          /\ phase' = "script"
          /\ hist' = IF hist.keyed THEN hist ELSE [hist EXCEPT !.tried = Append(@, Here)]
          /\ UNCHANGED showMenu
  /\ UNCHANGED <<fixed, shown, plan, timeout, count>>


\* A slip: the turns of the loop are not counted.
Failed_Uncounted(list, no) ==
  /\ kernel' = FALSE
  /\ fallbacks' = list
  /\ UNCHANGED count
  /\ IF no < 0
     THEN phase' = "prompt" /\ fallbackno' = no /\ UNCHANGED <<view, script>>
     ELSE /\ view' = [first |-> 0, entry |-> list[no]]
          /\ fallbackno' = After(list, no)
          /\ script' = FromTitles
          /\ phase' = "boot"

\* run_script fails: the next fallback entry, or the error and a key.
Failed(list, no) ==
  /\ kernel' = FALSE
  /\ fallbacks' = list
  /\ IF no < 0
     THEN phase' = "prompt" /\ fallbackno' = no
          /\ UNCHANGED <<view, script, count>>
     ELSE /\ view' = [first |-> 0, entry |-> list[no]]
          /\ fallbackno' = After(list, no)
          /\ script' = FromTitles
          /\ count' = count + 1
          /\ phase' = IF count' > num * num * 4 THEN "endless" ELSE "boot"

Still == UNCHANGED <<fixed, num, timeout, showMenu, tempNum, outer, lines, current, hist>>
Command == Head(script).op
NextCommand == script' = Tail(script)

RunCommand ==
  /\ phase = "script" /\ script # <<>>
  /\ Command \in {"nothing", "kernel", "save"}
  /\ kernel' = (kernel \/ Command = "kernel")
  /\ saved' = IF Command # "save" THEN saved
              ELSE IF Head(script).arg = "current" THEN current
              ELSE IF NextFallback(fallbacks, current) < 0 THEN saved
              ELSE NextFallback(fallbacks, current)
  /\ NextCommand
  /\ UNCHANGED <<menu, default, shown, phase, plan, timeout, showMenu, current, count, hist>>

RunFallback ==
  /\ phase = "script" /\ script # <<>>
  /\ Command \in {"fallback", "go"}
  /\ LET list == FallbackFunc(fallbacks, fallbackno, Head(script).args)
     IN  IF Command = "fallback" /\ list.ok
         THEN /\ fallbacks' = list.list /\ fallbackno' = list.no
              /\ NextCommand
              /\ UNCHANGED <<phase, view, kernel, count>>
         ELSE Failed(list.list, list.no)
  /\ Still

CommandFails ==
  /\ phase = "script" /\ script # <<>> /\ Command = "fail"
  /\ Failed(fallbacks, fallbackno)
  /\ Still

\* The end of the script: the menu, or the implied boot. An edited list is
\* that of the entry the editor was called on.
ScriptEnds ==
  /\ phase = "script" /\ script = <<>> /\ ~kernel
  /\ ToMenu
  /\ UNCHANGED <<fixed, shown, plan, timeout, going, hist>>

Running == IF Editing /\ count = 0 THEN outer.first + outer.entry ELSE current

BootKernel ==
  /\ phase = "script" /\ script = <<>> /\ kernel
  /\ IF menu.fate[Running + 1] = "fails"
     THEN Failed(fallbacks, fallbackno)
     ELSE phase' = menu.fate[Running + 1] /\ UNCHANGED <<view, plan, script, kernel, count>>
  /\ Still

\* A key answers the prompt.
PromptKey ==
  /\ phase \in {"prompt", "endless"}
  /\ ToMenu
  /\ hist' = Keyed
  /\ UNCHANGED <<fixed, shown, plan, timeout, going>>

----------------------------------------------------------------------------
(* The machine *)

Restarted ==
  /\ phase' = "load"
  /\ view' = [first |-> 0, entry |-> 0] /\ num' = 0
  /\ fallbacks' = NoFallbacks /\ fallbackno' = -1
  /\ default' = 0 /\ timeout' = -1 /\ showMenu' = TRUE
  /\ tempNum' = 0 /\ outer' = NoView /\ lines' = <<>>
  /\ script' = <<>> /\ kernel' = FALSE /\ current' = 0 /\ count' = 0
  /\ UNCHANGED <<menu, saved>>

\* A kernel that crashes resets the machine; so may a user at any moment.
Crash == phase = "crashes" /\ Restarted /\ UNCHANGED hist

Reset ==
  /\ hist.resets < MaxResets
  /\ Restarted
  /\ hist' = [hist EXCEPT !.resets = @ + 1]

Program ==
  \/ LoadMenu \/ CheckFallback \/ CheckDefault \/ Restart \/ Second \/ Timeout
  \/ BootTurn \/ RunCommand \/ RunFallback \/ CommandFails \/ ScriptEnds \/ BootKernel

User ==
  \/ KeyWhileHidden \/ Boot \/ Edit \/ DeleteLine \/ LeaveEditor \/ PromptKey
  \/ \E k \in menu.keys : Move(k) \/ InsertLine(k)
  \/ \E d \in Digits : Digit(d)

Next == Program \/ User \/ Crash \/ Reset

\* The program runs and a crashed machine restarts; no key ever has to come.
Spec == Init /\ [][Next]_vars /\ WF_vars(Program) /\ WF_vars(Crash)

----------------------------------------------------------------------------
(* Properties *)

\* No command of an entry changes the fallback list.
Plain(m) == \A e \in 1 .. Size(m) : \A c \in Range(m.script[e]) :
              c.op \notin {"fallback", "go"}

\* Those of the first n fallback entries of the file that the menu has.
Present(m) ==
  LET kept[n \in 0 .. Len(m.fallback)] ==
        IF n = 0 THEN <<>>
        ELSE IF m.fallback[n] < Size(m) THEN Append(kept[n - 1], m.fallback[n])
        ELSE kept[n - 1]
  IN  kept
Valid(m) == Present(m)[Len(m.fallback)]

\* The entries of an unattended boot in their order.
Chain == CASE hist.wanted < Size(menu) -> <<hist.wanted>> \o Valid(menu)
           [] hist.wanted >= Size(menu) /\ Valid(menu) # <<>> -> Valid(menu)
           [] OTHER -> <<0>>

Indices == -1 .. 12
Views == [first : -1 .. 8, entry : -1 .. 8]

\* Types: every variable of the menu keeps to the values its C type and the
\* code give it.
TypeOK ==
  /\ menu \in Menus
  /\ phase \in {"load", "check", "restart", "menu", "hidden", "boot", "script",
                "prompt", "endless", "runs", "crashes"}
  /\ view \in Views /\ outer \in Views
  /\ num \in 0 .. 8 /\ current \in Indices /\ saved \in Indices /\ default \in Indices
  /\ DOMAIN fallbacks = 0 .. MAX_FALLBACK_ENTRIES - 1
  /\ fallbackno \in -1 .. MAX_FALLBACK_ENTRIES - 1
  /\ fallbackno >= 0 => fallbacks[fallbackno] >= 0
  /\ timeout \in -1 .. 99 /\ showMenu \in BOOLEAN /\ kernel \in BOOLEAN
  /\ tempNum \in 0 .. 255 /\ count \in Nat

\* The highlighted entry of the menu is one of its entries and in the box,
\* whatever the keys, the edits and the boots before it (first_entry, entryno
\* and num_entries are moved apart at some twenty places of run_menu).
HighlightInMenu ==
  phase = "menu" /\ ~Editing =>
    /\ view.first >= 0
    /\ view.entry \in 0 .. MENU_BOX_H - 1
    /\ Here < num

\* An unattended boot tries the default entry and then the fallback entries of
\* the menu, in their order, each once; and it stops for a key only when all
\* of them have failed.
FallbackInOrder ==
  ~hist.keyed /\ Plain(menu) =>
    /\ IsPrefix(hist.tried, Chain)
    /\ phase = "prompt" => hist.tried = Chain

\* "savedefault fallback" in an unattended boot saves the entry that is tried
\* next if this one fails: the search for the current entry in the list and
\* the index run_menu keeps are two accounts of the same place.
SavedFallbackIsNext ==
  [][/\ phase = "script" /\ script # <<>> /\ saved' # saved /\ Head(script).op = "save"
     /\ Head(script).arg = "fallback"
     /\ ~hist.keyed /\ Plain(menu) /\ hist.wanted \notin Range(menu.fallback)
     => fallbackno >= 0 /\ saved' = fallbacks[fallbackno]]_vars

\* The menu of every menu file comes up: the check of its fallback entries ends.
MenuComesUp == phase = "load" ~> phase \in {"menu", "hidden"}

\* A boot ends in a kernel, in the menu or at a prompt, also where the entries
\* name each other as fallbacks.
BootEnds ==
  phase = "boot" ~> phase \in {"menu", "prompt", "endless", "runs", "crashes", "load"}

\* A menu that boots the saved entry, whose entries save their fallback before
\* they boot, and fail by a crash if they do. (An error on the way starts the
\* list from its head again, and with it an entry that has crashed before.)
SelfSaving(m) ==
  /\ m.default = -1 /\ m.timeout >= 0
  /\ \A e \in 1 .. Size(m) :
       m.script[e] = <<[op |-> "save", arg |-> "fallback"], [op |-> "kernel"]>>
  /\ Range(m.fallback) \subseteq 1 .. Size(m) - 1
  /\ \A e \in 1 .. Size(m) : m.fate[e] # "fails"
  /\ \E e \in {0} \cup Range(m.fallback) : m.fate[e + 1] = "runs"

\* With such a menu a machine that is left alone comes to an entry that runs:
\* each crash has moved the saved number on.
GoodEntryRuns ==
  SelfSaving(menu) /\ [](~hist.keyed /\ hist.resets = 0) => <>(phase = "runs")

=============================================================================
