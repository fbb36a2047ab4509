------------------------------ MODULE ThemeStore -------------------------------
(***************************************************************************)
(* The theme preference: the picker of source/miniiptv/theme_ui.c and the  *)
(* store of source/miniiptv/theme_store.c it saves through, on a card that *)
(* may fail at any operation and lose power between any two of them.       *)
(*                                                                         *)
(* A file is what a reader makes of it: the theme it names, or NoTheme if  *)
(* it is missing, empty, cut short or names none.  The HID thread runs the *)
(* picker and the whole of a save; nothing else writes the two files.      *)
(***************************************************************************)
EXTENDS Integers

CONSTANTS
  ThemeCount,    \* MINIIPTV_THEME_COUNT
  MaxEvents      \* bound: keys, failures of the card and losses of power

ASSUME ThemeStoreAssumption == ThemeCount \in Nat \ {0} /\ MaxEvents \in Nat

Themes == 0..(ThemeCount - 1)
Classic == 0
NoTheme == ThemeCount
Files == {"primary", "backup"}

VARIABLES
  card,     \* what a reader makes of each file
  picker,   \* the picker's flags, original and previewed theme; the theme shown
  save,     \* the save under way: where it is, theme, file and backed-up theme
  left,     \* events left
  before,   \* history: the card when the save under way began
  lost      \* history: a save has failed since the last one that succeeded

vars == <<card, picker, save, left, before, lost>>

(* miniiptv_theme_store_load: the primary, else the backup.                 *)
Load(c) == IF c.primary # NoTheme THEN c.primary ELSE c.backup

(* MiniIptv_theme_ui_init: a failed load leaves the classic look.           *)
Started(c) ==
  LET t == IF Load(c) = NoTheme THEN Classic ELSE Load(c) IN
  [open |-> FALSE, failed |-> FALSE, original |-> t, preview |-> t, theme |-> t]

Saves == [pc : {"idle", "open", "write", "close", "verify", "saved", "failed"},
          id : Themes \cup {NoTheme}, file : Files, previous : Themes \cup {NoTheme}]
NoSave == [pc |-> "idle", id |-> NoTheme, file |-> "primary", previous |-> NoTheme]

Init ==
  /\ card \in [Files -> Themes \cup {NoTheme}]
  /\ picker = Started(card)
  /\ save = NoSave
  /\ left = MaxEvents
  /\ before = card
  /\ lost = FALSE

Event == left > 0 /\ left' = left - 1

-----------------------------------------------------------------------------
(* MiniIptv_theme_ui_hid; the thread is inside a save until it returns.     *)

Key == save.pc = "idle" /\ Event
PickerOnly == UNCHANGED <<card, save, before, lost>>

Open ==
  /\ Key /\ ~picker.open
  /\ picker' = [picker EXCEPT !.open = TRUE, !.failed = FALSE,
                  !.original = picker.theme, !.preview = picker.theme]
  /\ PickerOnly

(* Mutant of Cancel: the previewed theme stays on the screen.               *)
CancelKeepsPreview ==
  /\ Key /\ picker.open
  /\ picker' = [picker EXCEPT !.open = FALSE]
  /\ PickerOnly

Cancel ==
  /\ Key /\ picker.open
  /\ picker' = [picker EXCEPT !.open = FALSE, !.theme = picker.original]
  /\ PickerOnly

(* Mutant of Stepped: the last theme does not wrap.                         *)
SteppedPast(step) == picker.preview + step

Stepped(step) == (picker.preview + step) % ThemeCount

Preview ==
  /\ Key /\ picker.open
  /\ \E step \in {1, ThemeCount - 1} :
       LET t == Stepped(step) IN
       picker' = [picker EXCEPT !.preview = t, !.theme = t, !.failed = FALSE]
  /\ PickerOnly

(* Mutant of FirstFile: the primary is overwritten without a backup.        *)
FirstFilePrimary(old) == "primary"

(* What is known to be whole is backed up first.                            *)
FirstFile(old) == IF old = NoTheme THEN "primary" ELSE "backup"

(* A reads the primary: the same theme needs no save, another one is backed *)
(* up first.  Reading may fail although the file is whole.                  *)
Confirm ==
  /\ Key /\ picker.open
  /\ \E old \in {card.primary, NoTheme} :
          save' = [pc |-> CASE old = picker.preview -> "saved" [] OTHER -> "open",
                   id |-> picker.preview,
                   file |-> FirstFile(old),
                   previous |-> old]
  /\ before' = card
  /\ UNCHANGED <<card, picker, lost>>

-----------------------------------------------------------------------------
(* write_verified of the backup, then of the primary.                       *)

Written == IF save.file = "backup" THEN save.previous ELSE save.id
Put(t) == card' = [card EXCEPT ![save.file] = t]
SaveOnly == UNCHANGED <<picker, before, lost>>
Goto(pc) == save' = [save EXCEPT !.pc = pc]

(* fopen "wb" cuts the file to nothing.                                     *)
OpenFile ==
  /\ save.pc = "open"
  /\ \/ Put(NoTheme) /\ Goto("write") /\ UNCHANGED left
     \/ Event /\ Goto("failed") /\ UNCHANGED card
  /\ SaveOnly

(* fwrite and fflush; a failure may still have put the bytes on the card,   *)
(* and a card may take them and keep something else.                        *)
WriteFile ==
  /\ save.pc = "write"
  /\ \/ Put(Written) /\ Goto("close") /\ UNCHANGED left
     \/ Event /\ Put(NoTheme) /\ Goto("close")
     \/ Event /\ Goto("failed") /\ \E t \in {NoTheme, Written} : Put(t)
  /\ SaveOnly

CloseFile ==
  /\ save.pc = "close"
  /\ \/ Goto("verify") /\ UNCHANGED <<card, left>>
     \/ Event /\ Goto("failed") /\ \E t \in {NoTheme, card[save.file]} : Put(t)
  /\ SaveOnly

(* The file is opened again and has to name what was written.               *)
Verify ==
  /\ save.pc = "verify"
  /\ \/ /\ card[save.file] = Written /\ UNCHANGED left
        /\ save' = IF save.file = "backup"
                     THEN [save EXCEPT !.file = "primary", !.pc = "open"]
                     ELSE [save EXCEPT !.pc = "saved"]
     \/ card[save.file] # Written /\ Goto("failed") /\ UNCHANGED left
     \/ Event /\ Goto("failed")
  /\ UNCHANGED card /\ SaveOnly

(* The picker takes the result: it closes on success and stays open to show *)
(* a failure.                                                               *)
Return ==
  /\ save.pc \in {"saved", "failed"}
  /\ LET ok == save.pc = "saved" IN
     /\ picker' = [picker EXCEPT !.original = save.id, !.failed = ~ok, !.open = ~ok]
     /\ lost' = ~ok
  /\ save' = NoSave
  /\ before' = card
  /\ UNCHANGED <<card, left>>

-----------------------------------------------------------------------------
(* Power is lost, and comes back: a file that is not closed yet may have    *)
(* kept nothing.                                                            *)
PowerLoss ==
  /\ Event
  /\ IF save.pc = "close" THEN \E t \in {NoTheme, card[save.file]} : Put(t)
     ELSE UNCHANGED card
  /\ picker' = Started(card')
  /\ save' = NoSave
  /\ before' = card'
  /\ lost' = FALSE

Next ==
  \/ Open \/ Cancel \/ Preview \/ Confirm
  \/ OpenFile \/ WriteFile \/ CloseFile \/ Verify \/ Return
  \/ PowerLoss

Spec == Init /\ [][Next]_vars

-----------------------------------------------------------------------------
(* Properties.                                                              *)

(* Every variable keeps its type.                                           *)
TypeOK ==
  /\ card \in [Files -> Themes \cup {NoTheme}]
  /\ picker \in [open : BOOLEAN, failed : BOOLEAN, original : Themes,
                 preview : Themes, theme : Themes]
  /\ save \in Saves
  /\ left \in 0..MaxEvents
  /\ before \in [Files -> Themes \cup {NoTheme}]
  /\ lost \in BOOLEAN

(* The save could not read a primary that was whole, and so backs up none.  *)
Blind == save.previous = NoTheme /\ before.primary # NoTheme

(* Whatever fails and wherever the power goes, a restart loads what it would *)
(* have loaded before the save, or the theme being saved: never a third one *)
(* and never nothing.  Only a blind save may uncover the backup of an older *)
(* one.  Without a save a restart goes on loading the same.                 *)
SaveAtomic ==
  [][IF save.pc = "idle" THEN Load(card') = Load(card)
     ELSE \/ Load(card') \in {Load(before), save.id}
          \/ Blind /\ Load(card') = before.backup]_vars

(* With the picker closed and no save failed, a restart shows the theme     *)
(* that is on the screen.                                                   *)
RestartShowsTheme ==
  ~picker.open /\ ~lost =>
    picker.theme = IF Load(card) = NoTheme THEN Classic ELSE Load(card)
=============================================================================
