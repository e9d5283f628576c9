-------------------------------- MODULE Pager --------------------------------
(***************************************************************************)
(* The full-screen list of agy-sync status --full: internal/pager/pager.go.*)
(* The terminal delivers bytes, a read takes at most ReadSize of them, and *)
(* ParseKey decodes one key at a time from what the last read left over;   *)
(* the window may be resized at any moment and is measured before every    *)
(* redraw.                                                                 *)
(*                                                                         *)
(* What the user asked for (asked) and whether a read has split a key      *)
(* (split) are kept to state what the decoder owes; no action looks at     *)
(* them to decide what the program does.                                   *)
(***************************************************************************)
EXTENDS Integers, Sequences

CONSTANTS
  Items,     \* the number of rows of the list
  Overhead,  \* the lines of the screen that are not rows
  Heights,   \* the heights the window takes; 0 is an unknown one
  Keys,      \* the keys the user presses
  ReadSize,  \* the size of the read buffer
  KeyBound   \* bound: so many keys may be outstanding

(* The keys of docs/daemon.md, the bytes a terminal sends for them, and    *)
(* what they are said to do.  Space and the control keys are bytes of the  *)
(* same name.                                                              *)
Esc == "esc"
KeyBytes ==
  [j |-> <<"j">>, k |-> <<"k">>, h |-> <<"h">>, l |-> <<"l">>,
   g |-> <<"g">>, G |-> <<"G">>, q |-> <<"q">>, Escape |-> <<Esc>>,
   Space |-> <<"Space">>, CtrlC |-> <<"CtrlC">>,
   CtrlF |-> <<"CtrlF">>, CtrlB |-> <<"CtrlB">>,
   Down |-> <<Esc, "[", "B">>, Up |-> <<Esc, "[", "A">>,
   Right |-> <<Esc, "[", "C">>, Left |-> <<Esc, "[", "D">>,
   Home |-> <<Esc, "[", "H">>, End |-> <<Esc, "[", "F">>,
   PageUp |-> <<Esc, "[", "5", "~">>, PageDown |-> <<Esc, "[", "6", "~">>]
KeyMeaning ==
  [j |-> "NextRow", k |-> "PrevRow", h |-> "PrevPage", l |-> "NextPage",
   g |-> "FirstPage", G |-> "LastPage", q |-> "Quit", Escape |-> "Quit",
   Space |-> "NextPage", CtrlC |-> "Quit",
   CtrlF |-> "NextPage", CtrlB |-> "PrevPage",
   Down |-> "NextRow", Up |-> "PrevRow",
   Right |-> "NextPage", Left |-> "PrevPage",
   Home |-> "FirstPage", End |-> "LastPage",
   PageUp |-> "PrevPage", PageDown |-> "NextPage"]

(* Two of them ParseKey does not know.                                     *)
Unknown == {"CtrlF", "CtrlB"}
Effect ==
  [key \in DOMAIN KeyMeaning |->
     IF key \in Unknown THEN "None" ELSE KeyMeaning[key]]

ASSUME PagerAssumption ==
  /\ Items \in Nat \ {0}
  /\ Overhead \in Nat
  /\ Heights \subseteq Nat
  /\ Keys \subseteq DOMAIN KeyBytes
  /\ ReadSize \in Nat \ {0}
  /\ KeyBound \in Nat

Byte == UNION {{KeyBytes[k][i] : i \in DOMAIN KeyBytes[k]} : k \in Keys}
KeyStart == {KeyBytes[k][1] : k \in Keys}
Action == {Effect[k] : k \in Keys}

VARIABLES
  screen,    \* the loop: about to "draw", to "read", to "obey", or "over"
  height,    \* the window
  size,      \* the paginator: page size,
  page,      \* current page
  cursor,    \* and selected row
  tty,       \* bytes the terminal has not been asked for yet
  pending,   \* bytes read and not decoded yet
  asked,     \* what the outstanding keys are to do
  split      \* a read ended inside a key

pagerVars ==
  <<screen, height, size, page, cursor, tty, pending, asked, split>>
view == <<size, page, cursor>>

(* DerivePageSize with the fallback of Run.                                *)
DerivePageSize(h) ==
  IF h = 0 THEN 15 ELSE IF h > Overhead THEN h - Overhead ELSE 1

PagesPlusOne(n) == Items \div n + 1
TotalPages(n) == Items \div n + (IF Items % n = 0 THEN 0 ELSE 1)

PageStart == IF page * size < Items THEN page * size ELSE Items
PageEnd == IF PageStart + size < Items THEN PageStart + size ELSE Items

(* Paginator's moves: the page and the row after an action.                *)
AtPage(p) == <<p, p * size>>
AtRow(r) == <<r \div size, r>>
Move(action) ==
  CASE action = "NextPage" /\ page < TotalPages(size) - 1 -> AtPage(page + 1)
    [] action = "PrevPage" /\ page > 0 -> AtPage(page - 1)
    [] action = "FirstPage" -> AtPage(0)
    [] action = "LastPage" -> AtPage(TotalPages(size) - 1)
    [] action = "NextRow" /\ cursor < Items - 1 -> AtRow(cursor + 1)
    [] action = "PrevRow" /\ cursor > 0 -> AtRow(cursor - 1)
    [] OTHER -> <<page, cursor>>

(* ParseKey: the action at the head of the bytes b, and how many of them   *)
(* it takes.  An escape that begins no known sequence is the escape key.   *)
OneByte ==
  [q |-> "Quit", Q |-> "Quit", CtrlC |-> "Quit",
   k |-> "PrevRow", K |-> "PrevRow", j |-> "NextRow", J |-> "NextRow",
   h |-> "PrevPage", H |-> "PrevPage",
   l |-> "NextPage", L |-> "NextPage", Space |-> "NextPage",
   g |-> "FirstPage", G |-> "LastPage"]
Sequence ==
  [c \in {"A", "B", "C", "D", "H", "F", "5", "6"} |->
     CASE c = "A" -> "PrevRow" [] c = "B" -> "NextRow"
       [] c \in {"C", "6"} -> "NextPage" [] c \in {"D", "5"} -> "PrevPage"
       [] c = "H" -> "FirstPage" [] c = "F" -> "LastPage"]
IsSequence(b) == Len(b) >= 3 /\ b[2] = "[" /\ b[3] \in DOMAIN Sequence
TildeLeft(b) == 3
SequenceLength(b) ==
  IF b[3] \in {"5", "6"} /\ Len(b) >= 4 /\ b[4] = "~" THEN 4 ELSE 3
ParseKey(b) ==
  CASE b[1] = Esc /\ IsSequence(b) -> <<Sequence[b[3]], SequenceLength(b)>>
    [] b[1] = Esc /\ ~IsSequence(b) -> <<"Quit", 1>>
    [] b[1] \in DOMAIN OneByte -> <<OneByte[b[1]], 1>>
    [] OTHER -> <<"None", 1>>

PagerInit ==
  /\ screen = "draw"
  /\ height \in Heights
  /\ size = DerivePageSize(height)
  /\ page = 0
  /\ cursor = 0
  /\ tty = <<>>
  /\ pending = <<>>
  /\ asked = <<>>
  /\ split = FALSE

-----------------------------------------------------------------------------
(* The user and the terminal.                                              *)

Press ==
  /\ screen # "over"
  /\ Len(asked) < KeyBound
  /\ \E key \in Keys :
       /\ tty' = tty \o KeyBytes[key]
       /\ asked' = Append(asked, Effect[key])
  /\ UNCHANGED <<screen, height, view, pending, split>>

Resize ==
  /\ screen # "over"
  /\ height' \in Heights \ {height}
  /\ UNCHANGED <<screen, view, tty, pending, asked, split>>

-----------------------------------------------------------------------------
(* The loop of Run.                                                        *)

(* SetPageSize keeps the selected row on the page.  An unknown height      *)
(* changes nothing.                                                        *)
SamePage(n) == page
PageOfCursor(n) == cursor \div n
Draw ==
  LET n == DerivePageSize(height) IN
  /\ screen = "draw"
  /\ \/ /\ height > 0 /\ n # size
        /\ size' = n
        /\ page' = PageOfCursor(n)
     \/ /\ height = 0 \/ n = size
        /\ UNCHANGED <<size, page>>
  /\ screen' = IF pending = <<>> THEN "read" ELSE "obey"
  /\ UNCHANGED <<height, cursor, tty, pending, asked, split>>

ReadTTY ==
  LET n == IF Len(tty) < ReadSize THEN Len(tty) ELSE ReadSize
      rest == SubSeq(tty, n + 1, Len(tty))
  IN
  /\ screen = "read"
  /\ tty # <<>>
  /\ pending' = SubSeq(tty, 1, n)
  /\ tty' = rest
  /\ split' = (split \/ (rest # <<>> /\ rest[1] \notin KeyStart))
  /\ screen' = "obey"
  /\ UNCHANGED <<height, view, asked>>

(* One key is decoded and done.                                            *)
Obey ==
  LET key == ParseKey(pending) IN
  /\ screen = "obey"
  /\ pending' = SubSeq(pending, key[2] + 1, Len(pending))
  /\ IF key[1] = "Quit"
     THEN /\ screen' = "over"
          /\ UNCHANGED <<page, cursor>>
     ELSE /\ screen' = "draw"
          /\ page' = Move(key[1])[1]
          /\ cursor' = Move(key[1])[2]
  /\ asked' = IF asked = <<>> THEN asked ELSE Tail(asked)
  /\ UNCHANGED <<height, size, tty, split>>

(* The input ends, or an error.                                            *)
Hangup ==
  /\ screen = "read"
  /\ tty = <<>>
  /\ screen' = "over"
  /\ UNCHANGED <<height, view, tty, pending, asked, split>>

PagerNext == Press \/ Resize \/ Draw \/ ReadTTY \/ Obey \/ Hangup

PagerSpec == PagerInit /\ [][PagerNext]_pagerVars

-----------------------------------------------------------------------------
(* Properties.                                                             *)

(* Types; the page exists and the selected row is an item, whatever the    *)
(* keys and the sizes of the window.                                       *)
PagerTypeOK ==
  /\ screen \in {"draw", "read", "obey", "over"}
  /\ height \in Heights
  /\ size \in Nat \ {0}
  /\ page \in 0 .. TotalPages(size) - 1
  /\ cursor \in 0 .. Items - 1
  /\ tty \in Seq(Byte)
  /\ pending \in Seq(Byte)
  /\ asked \in Seq(Action)
  /\ split \in BOOLEAN

(* The rows on the screen include the selected one, after every sequence   *)
(* of moves and resizes (docs/daemon.md, "keeping the current cursor item  *)
(* in view").                                                              *)
SelectionShown == PageStart <= cursor /\ cursor < PageEnd

(* Every key but Ctrl+F and Ctrl+B does what docs/daemon.md says of it,    *)
(* and those two do nothing, once and in order, although a read delivers   *)
(* any number of them: unless a read has split a key, what the decoder     *)
(* finds is the next key's.                                                *)
KeysObeyed ==
  screen = "obey" /\ ~split =>
    asked # <<>> /\ ParseKey(pending)[1] = Head(asked)

=============================================================================
