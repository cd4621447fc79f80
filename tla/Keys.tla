--------------------------------- MODULE Keys ---------------------------------
(***************************************************************************)
(* What a key means: the dispatch of the event loop                        *)
(* (src/src/tui/event_loop.rs), which depends on the mode, beside the      *)
(* catalogue that help shows (src/src/tui/keys.rs), which says on its own  *)
(* when a key is available.  Two tables, written apart, of the same keys.  *)
(*                                                                         *)
(* What the actions do is in Dashboard and Overview; here it matters only  *)
(* that a key starts one, opens a prompt, or does nothing.  The arrows     *)
(* mean what their letters mean and have no names of their own.            *)
(***************************************************************************)
EXTENDS Integers

CONSTANTS Longest,   \* the most lines help may exceed the screen by
          Limit,     \* u16::MAX, where scrolling saturates
          Page,      \* 8
          MaxTasks   \* bound on the background actions under way

ASSUME KeysAssumption ==
  /\ Longest \in Nat /\ Page \in Nat \ {0} /\ Limit \in Nat /\ Longest + Page <= Limit
  /\ MaxTasks \in Nat \ {0}

Opens    == [a |-> "add", n |-> "create", s |-> "accounts", m |-> "join", u |-> "leave",
             c |-> "checkout", d |-> "remove", w |-> "workspace", slash |-> "filter"]
Starts   == {"p", "r", "R", "t"}
Letter   == DOMAIN Opens \cup Starts \cup {"o", "q", "j", "k", "h", "l", "y", "1", "6", "?"}
Key      == Letter \cup {"F1", "Esc", "Enter", "Tab", "BackTab", "PageDown", "PageUp", "other"}

Fields   == {"add", "filter", "checkout", "create", "join", "leave", "accounts"}
Confirms == {"confirm", "remove"}
ModeKind     == {"normal", "workspace"} \cup Fields \cup Confirms

VARIABLES
  modeKind,    \* the kind of App.mode, the suspended one while help is open
  help,        \* help is open
  pending,     \* a preview waits under it
  scroll,      \* of help
  beyond,      \* how far help exceeds the screen (the last frame)
  tab, down,   \* App.tab, App.scroll
  action_busy, \* App.action_busy
  tasks,       \* background actions under way
  hasRow,      \* App::current is some row
  web,         \* ... that has a web page
  phase        \* "messages", "key", or "ended"

view == <<modeKind, help, pending, scroll, tab, down, action_busy, tasks>>
keysVars == <<view, beyond, hasRow, web, phase>>

SatAdd(x, n) == IF x + n <= Limit THEN x + n ELSE Limit
SatSub(x, n) == IF x >= n THEN x - n ELSE 0

-----------------------------------------------------------------------------
(* The catalogue of help. *)

Idle          == {"a", "s", "n"}
IdleSelection == {"d", "c", "p", "r", "R", "t", "m", "u"}
Selection     == {"o"}

\* Binding::is_available
IsAvailable(k) ==
  /\ k \in Idle \cup IdleSelection      => ~action_busy
  /\ k \in Selection \cup IdleSelection => hasRow

-----------------------------------------------------------------------------
(* The dispatch. *)

\* key_context
Context == CASE help                       -> "help"
             [] ~help /\ modeKind = "normal"   -> "dashboard"
             [] ~help /\ modeKind \in Confirms -> "confirmation"
             [] OTHER                      -> "text"

\* dispatch_for
OpensHelp(k) ==
  \/ Context = "dashboard" /\ k \in {"F1", "?"}
  \/ Context \in {"text", "confirmation"} /\ k = "F1"

OpenHelp ==
  /\ help' = TRUE /\ scroll' = 0 /\ pending' = FALSE
  /\ UNCHANGED <<modeKind, tab, down, action_busy, tasks>>

\* help_action and apply_help_action; close_help shows the preview that waits.
HelpKey(k) ==
  \/ /\ k \in {"Esc", "?", "F1", "q"}
     /\ help' = FALSE /\ pending' = FALSE
     /\ modeKind' = IF pending THEN "confirm" ELSE modeKind
     /\ scroll' = 0
     /\ UNCHANGED <<tab, down, action_busy, tasks>>
  \/ /\ scroll' = CASE k = "j" -> SatAdd(scroll, 1)    [] k = "k" -> SatSub(scroll, 1)
                    [] k = "PageDown" -> SatAdd(scroll, Page)
                    [] k = "PageUp" -> SatSub(scroll, Page)
                    [] OTHER -> scroll
     /\ k \notin {"Esc", "?", "F1", "q"}
     /\ UNCHANGED <<modeKind, help, pending, tab, down, action_busy, tasks>>

Enters(m) ==
  /\ modeKind' = m
  /\ UNCHANGED <<help, pending, scroll, tab, down, action_busy, tasks>>

Begins(flag) ==
  /\ tasks < MaxTasks /\ tasks' = tasks + 1
  /\ action_busy' = flag
  /\ UNCHANGED <<modeKind, help, pending, scroll, tab, down>>

\* next_tab
NextTab(step) == (tab + step) % 6

Turns(t) ==
  /\ tab' = t /\ down' = 0
  /\ UNCHANGED <<modeKind, help, pending, scroll, action_busy, tasks>>

\* Mutant: a terminal opens beside a running action.
MayStartWithTerminal(k) == hasRow /\ (k # "t" => ~action_busy)

\* The guards of p, r, R and t; R is for the rows that are visible, which are
\* some exactly when one is selected.
MayStart(k) == k \in Starts /\ ~action_busy /\ hasRow

\* The guards of the keys that open a prompt
MayOpen(k) ==
  /\ k \in DOMAIN Opens
  /\ k \notin {"w", "slash"} => ~action_busy
  /\ k \in {"c", "d"} => hasRow

Effective(k) ==
  \/ MayStart(k) \/ MayOpen(k)
  \/ k = "o" /\ hasRow /\ web
  \/ k \in {"j", "k", "h", "l", "1", "6", "Tab", "BackTab", "Enter", "Esc", "PageDown", "PageUp"}

NormalKey(k) ==
  \/ MayOpen(k) /\ Enters(Opens[k])
  \/ MayStart(k) /\ Begins(TRUE)
  \/ k = "o" /\ hasRow /\ web /\ Begins(action_busy)
  \/ k \in {"h", "BackTab"} /\ Turns(NextTab(5))
  \/ k \in {"l", "Tab", "Enter"} /\ Turns(NextTab(1))
  \/ k \in {"1", "Esc"} /\ Turns(0)
  \/ k = "6" /\ Turns(5)
  \/ k \in {"j", "k"} /\ Turns(tab)
  \/ /\ k \in {"PageDown", "PageUp"}
     /\ down' = IF k = "PageDown" THEN SatAdd(down, Page) ELSE SatSub(down, Page)
     /\ UNCHANGED <<modeKind, help, pending, scroll, tab, action_busy, tasks>>
  \/ ~Effective(k) /\ UNCHANGED view

\* A background action is started.
Spawns == tasks < MaxTasks /\ action_busy' = TRUE /\ tasks' = tasks + 1

\* Enter in a prompt: done with it, whatever came of it; an addition and the
\* preview of a checkout go on in the background.
Submits ==
  /\ modeKind' = "normal"
  /\ \/ UNCHANGED <<action_busy, tasks>>
     \/ modeKind \in {"add", "checkout"} /\ Spawns
  /\ UNCHANGED <<help, pending, scroll, tab, down>>

\* The fields of text; the text itself is left out.  Enter in the accounts form
\* goes to the next field, and ends in the last one.
TextKey(k) ==
  \/ k = "Esc" /\ Enters("normal")
  \/ k = "Enter" /\ Submits
  \/ k = "Enter" /\ modeKind = "accounts" /\ UNCHANGED view
  \/ k \notin {"Esc", "Enter"} /\ UNCHANGED view

\* The workspace picker; j and k move within it.
PickerKey(k) == IF k \in {"Esc", "Enter"} THEN Enters("normal") ELSE UNCHANGED view

\* accepts_confirmation; a pull or a checkout goes on in the background.
ConfirmKey(k) ==
  \/ k \in {"n", "Esc"} /\ Enters("normal")
  \/ /\ k \in {"y", "Enter"} /\ modeKind' = "normal"
     /\ IF modeKind = "confirm" THEN Spawns
        ELSE UNCHANGED <<action_busy, tasks>>
     /\ UNCHANGED <<help, pending, scroll, tab, down>>
  \/ k \notin {"n", "y", "Esc", "Enter"} /\ UNCHANGED view

ModeKey(k) ==
  \/ modeKind = "normal" /\ NormalKey(k)
  \/ modeKind = "workspace" /\ PickerKey(k)
  \/ modeKind \in Confirms /\ ConfirmKey(k)
  \/ modeKind \in Fields /\ TextKey(k)

Press(k) ==
  /\ phase = "key" /\ ~(modeKind = "normal" /\ ~help /\ k = "q") /\ phase' = "messages"
  /\ IF OpensHelp(k) THEN OpenHelp ELSE IF help THEN HelpKey(k) ELSE ModeKey(k)
  /\ UNCHANGED <<beyond, hasRow, web>>

\* q in the dashboard; Ctrl-C everywhere
QuitKey == phase = "key" /\ phase' = "ended" /\ UNCHANGED <<view, beyond, hasRow, web>>

-----------------------------------------------------------------------------
(* What happens besides. *)

\* A background action reports: a preview is presented, or kept for later.
Report ==
  /\ phase = "messages" /\ tasks > 0 /\ tasks' = tasks - 1 /\ action_busy' = FALSE
  /\ \/ UNCHANGED <<modeKind, pending>>
     \/ help /\ pending' = TRUE /\ UNCHANGED modeKind
     \/ ~help /\ modeKind' = "confirm" /\ UNCHANGED pending
  /\ UNCHANGED <<help, scroll, tab, down, beyond, hasRow, web, phase>>

\* Other messages change which rows are visible, and so which one is selected.
RowsChange ==
  /\ phase = "messages"
  /\ hasRow' \in BOOLEAN /\ web' \in {b \in BOOLEAN : b => hasRow'}
  /\ UNCHANGED <<view, beyond, phase>>

\* Mutant: the frame shows the end of help, and forgets it.
Unbounded(n) == scroll

\* draw_help_modal brings the scroll of help into what the screen leaves out.
Bounded(n) == IF scroll > n THEN n ELSE scroll

\* A frame, of a screen of any size.
DrawHelp ==
  /\ phase = "messages" /\ phase' = "key"
  /\ beyond' \in 0 .. IF help THEN Longest ELSE 0
  /\ scroll' = Bounded(beyond')
  /\ UNCHANGED <<modeKind, help, pending, tab, down, action_busy, tasks, hasRow, web>>

KeysInit ==
  /\ modeKind = "normal" /\ help = FALSE /\ pending = FALSE /\ scroll = 0 /\ beyond = 0
  /\ tab = 0 /\ down = 0  /\ action_busy = FALSE /\ tasks = 0
  /\ hasRow \in BOOLEAN /\ web \in {b \in BOOLEAN : b => hasRow}
  /\ phase = "messages"

KeysNext == (\E k \in Key : Press(k)) \/ QuitKey \/ Report \/ RowsChange \/ DrawHelp

KeysSpec == KeysInit /\ [][KeysNext]_keysVars

-----------------------------------------------------------------------------
(* Properties. *)

\* Every variable keeps its kind and its bounds.
KeysTypeOK ==
  /\ modeKind \in ModeKind /\ help \in BOOLEAN /\ pending \in BOOLEAN
  /\ scroll \in 0 .. Limit /\ beyond \in 0 .. Longest
  /\ tab \in 0 .. 5 /\ down \in 0 .. Limit
  /\ action_busy \in BOOLEAN /\ tasks \in 0 .. MaxTasks
  /\ hasRow \in BOOLEAN /\ web \in BOOLEAN
  /\ phase \in {"messages", "key", "ended"}

\* However often PageDown is pressed and however the window is resized, the
\* next key that scrolls help back shows something else (draw_help_modal
\* stores the scroll it has shown).
HelpScrollsBack == help /\ phase = "key" => scroll <= beyond

\* Help and the tabs stay within what there is to show (event_loop.rs, draw.rs).
HelpIsInBounds == KeysTypeOK /\ HelpScrollsBack

\* A key with a condition in the catalogue.
Conditional == Idle \cup IdleSelection \cup Selection

\* "The help modal is the source of truth" (README.md): in the dashboard, a key
\* the catalogue calls available does something and one it calls unavailable
\* does nothing, whatever runs and whatever is selected; but for m and u
\* without a row, and o on a row without a page.
KeysMatchCatalogue ==
  [][\A k \in Conditional :
       /\ Press(k) /\ Context = "dashboard"
       /\ k \in {"m", "u"} => hasRow
       /\ k = "o" /\ hasRow => web
       => (IsAvailable(k) <=> view' # view)]_keysVars
=============================================================================
