---------------------------- MODULE ThemeStoreProofs ----------------------------
(***************************************************************************)
(* The theme preference for any number of themes and of failures: its      *)
(* types, that a save is atomic whatever fails and whenever the power goes, *)
(* and that a restart shows the theme the screen showed.                   *)
(***************************************************************************)
EXTENDS ThemeStore, TLAPS

(* What the save under way has left on the card: the backup is written      *)
(* beside a whole primary, the primary beside a whole backup, or beside the *)
(* old one where no primary was read.                                       *)
WritesBackup(c) ==
  /\ save.file = "backup" /\ save.previous # NoTheme
  /\ c.primary = before.primary /\ save.previous = before.primary
WritesPrimary(c) ==
  /\ save.file = "primary" /\ save.previous # NoTheme
  /\ c.backup = save.previous /\ save.previous = before.primary
  /\ c.primary \in {before.primary, NoTheme, save.id}
WritesFirst(c) ==
  /\ save.file = "primary" /\ save.previous = NoTheme
  /\ c.backup = before.backup /\ c.primary \in {before.primary, NoTheme, save.id}
CardAllowed(c) == WritesBackup(c) \/ WritesPrimary(c) \/ WritesFirst(c)

Saving == save.pc # "idle"
Shown(c) == IF Load(c) = NoTheme THEN Classic ELSE Load(c)

(* A save carries a theme, and leaves nothing else on the card.             *)
CardInv == Saving => save.id \in Themes /\ CardAllowed(card)

(* The screen shows what the picker previews; outside a save, and unless    *)
(* one has failed, what Cancel goes back to is what a restart loads.        *)
PickerInv ==
  /\ picker.open => picker.theme = picker.preview
  /\ Saving => picker.open /\ save.id = picker.preview
  /\ save.pc = "saved" => card.primary = save.id
  /\ ~Saving /\ picker.open /\ ~lost => picker.original = Shown(card)
  /\ RestartShowsTheme

StoreInv == TypeOK /\ CardInv /\ PickerInv

-----------------------------------------------------------------------------
(* Types.                                                                   *)

Cards == [Files -> Themes \cup {NoTheme}]
Pickers == [open : BOOLEAN, failed : BOOLEAN, original : Themes,
            preview : Themes, theme : Themes]

LEMMA ThemeFacts ==
  /\ Themes \subseteq Nat /\ NoTheme \in Nat /\ NoTheme \notin Themes /\ Classic \in Themes
  /\ "primary" \in Files /\ "backup" \in Files
BY ThemeStoreAssumption DEF Themes, NoTheme, Classic, Files

LEMMA SteppedIsATheme ==
  ASSUME NEW t \in Themes, NEW step \in {1, ThemeCount - 1}
  PROVE  (t + step) % ThemeCount \in Themes
BY ThemeStoreAssumption DEF Themes

(* A card is a record of its two files.                                     *)
LEMMA CardFiles ==
  ASSUME NEW c \in Cards
  PROVE  c.primary \in Themes \cup {NoTheme} /\ c.backup \in Themes \cup {NoTheme}
         /\ Load(c) \in Themes \cup {NoTheme}
BY ThemeFacts DEF Cards, Load

LEMMA StartedTypes ==
  ASSUME NEW c \in Cards PROVE Started(c) \in Pickers /\ Started(c).theme = Shown(c)
BY CardFiles, ThemeFacts DEF Started, Pickers, Shown

(* Put writes the file of the save and leaves the other.                    *)
LEMMA PutCard ==
  ASSUME TypeOK, NEW t \in Themes \cup {NoTheme}, Put(t)
  PROVE  /\ card' \in Cards
         /\ card'.primary = IF save.file = "primary" THEN t ELSE card.primary
         /\ card'.backup = IF save.file = "backup" THEN t ELSE card.backup
BY ThemeFacts DEF TypeOK, Put, Cards, Files

LEMMA WrittenTypes == TypeOK => Written \in Themes \cup {NoTheme}
BY DEF TypeOK, Saves, Written

LEMMA SaveTypes ==
  TypeOK => /\ card \in Cards /\ before \in Cards /\ picker \in Pickers
            /\ save.pc \in {"idle", "open", "write", "close", "verify", "saved", "failed"}
            /\ save.id \in Themes \cup {NoTheme} /\ save.file \in Files
            /\ save.previous \in Themes \cup {NoTheme}
BY DEF TypeOK, Cards, Pickers, Saves

LEMMA EventTypes == TypeOK /\ (Event \/ UNCHANGED left) => left' \in 0..MaxEvents
BY ThemeStoreAssumption DEF TypeOK, Event

-----------------------------------------------------------------------------
(* A step of the save itself: open, write, close or verify a file.          *)

FileStep == OpenFile \/ WriteFile \/ CloseFile \/ Verify

(* What such a step may put on the file of the save.                        *)
Leavings == {NoTheme, Written, card[save.file]}

LEMMA LeavingsTyped == TypeOK => Leavings \subseteq Themes \cup {NoTheme}
BY WrittenTypes, SaveTypes DEF Leavings, Cards

LEMMA FileStepCard ==
  ASSUME TypeOK, FileStep
  PROVE  /\ UNCHANGED card \/ \E t \in Leavings : Put(t)
         /\ UNCHANGED <<picker, before, lost>>
         /\ save.pc \in {"open", "write", "close", "verify"}
         /\ Event \/ UNCHANGED left
<1>1. CASE OpenFile
  BY <1>1 DEF OpenFile, SaveOnly, Leavings
<1>2. CASE WriteFile
  BY <1>2 DEF WriteFile, SaveOnly, Leavings
<1>3. CASE CloseFile
  BY <1>3 DEF CloseFile, SaveOnly, Leavings
<1>4. CASE Verify
  BY <1>4 DEF Verify, SaveOnly
<1> QED BY <1>1, <1>2, <1>3, <1>4 DEF FileStep

(* It goes on, or ends when the primary is verified, or turns from the      *)
(* verified backup to the primary.                                          *)
LEMMA FileStepSave ==
  ASSUME TypeOK, FileStep
  PROVE  \/ \E pc \in {"write", "close", "verify", "failed"} : Goto(pc)
         \/ /\ save.file = "primary" /\ card.primary = save.id /\ UNCHANGED card
            /\ save' = [save EXCEPT !.pc = "saved"]
         \/ /\ save.file = "backup" /\ card.backup = save.previous /\ UNCHANGED card
            /\ save' = [save EXCEPT !.file = "primary", !.pc = "open"]
<1>1. CASE OpenFile
  BY <1>1 DEF OpenFile
<1>2. CASE WriteFile
  BY <1>2 DEF WriteFile
<1>3. CASE CloseFile
  BY <1>3 DEF CloseFile
<1>4. CASE Verify
  <2>1. CASE Goto("failed")
    BY <2>1
  <2>2. CASE /\ card[save.file] = Written
             /\ save' = IF save.file = "backup"
                          THEN [save EXCEPT !.file = "primary", !.pc = "open"]
                          ELSE [save EXCEPT !.pc = "saved"]
    BY <1>4, <2>2, SaveTypes DEF Verify, Written, Files
  <2> QED BY <1>4, <2>1, <2>2 DEF Verify
<1> QED BY <1>1, <1>2, <1>3, <1>4 DEF FileStep

(* Whatever it puts there, the card is one the save is allowed to leave.    *)
LEMMA PutAllowed ==
  ASSUME TypeOK, CardInv, Saving, NEW t \in Leavings, Put(t)
  PROVE  CardAllowed(card')
<1>1. /\ card'.primary = IF save.file = "primary" THEN t ELSE card.primary
      /\ card'.backup = IF save.file = "backup" THEN t ELSE card.backup
  BY PutCard, LeavingsTyped
<1>2. CardAllowed(card)
  BY DEF CardInv
<1>3. CASE WritesBackup(card)
  BY <1>1, <1>3 DEF WritesBackup, CardAllowed
<1>4. CASE WritesPrimary(card) \/ WritesFirst(card)
  <2>1. save.file = "primary" /\ card.primary \in {before.primary, NoTheme, save.id}
        /\ t \in {NoTheme, save.id, card.primary}
    BY <1>4 DEF WritesPrimary, WritesFirst, Leavings, Written
  <2> QED BY <1>1, <1>4, <2>1 DEF WritesPrimary, WritesFirst, CardAllowed
<1> QED BY <1>2, <1>3, <1>4 DEF CardAllowed

LEMMA FileStepAllowed ==
  ASSUME TypeOK, CardInv, FileStep PROVE CardAllowed(card')
<1>1. Saving
  BY FileStepCard DEF Saving
<1>2. CASE UNCHANGED card
  BY <1>1, <1>2 DEF CardInv, CardAllowed, WritesBackup, WritesPrimary, WritesFirst
<1> QED BY <1>1, <1>2, FileStepCard, PutAllowed

LEMMA FileStepInv == ASSUME StoreInv, FileStep PROVE StoreInv'
<1>t. TypeOK /\ CardInv /\ PickerInv
  BY DEF StoreInv
<1>1. /\ UNCHANGED <<picker, before, lost>> /\ Saving
      /\ save.pc \in {"open", "write", "close", "verify"}
      /\ left' \in 0..MaxEvents
  BY <1>t, FileStepCard, EventTypes DEF Saving
<1>2. card' \in Cards
  BY <1>t, FileStepCard, PutCard, LeavingsTyped, SaveTypes
<1>3. CardAllowed(card')
  BY <1>t, FileStepAllowed
<1>s. /\ save \in Saves
      /\ picker.open /\ save.id = picker.preview /\ save.id \in Themes
      /\ picker.theme = picker.preview
  BY <1>t, <1>1 DEF TypeOK, PickerInv, CardInv
<1>4. ASSUME NEW pc \in {"write", "close", "verify", "failed"}, Goto(pc)
      PROVE  StoreInv'
  <2>1. /\ save'.pc = pc /\ save'.id = save.id /\ save'.file = save.file
        /\ save'.previous = save.previous
        /\ save' \in Saves
    BY <1>s, <1>4 DEF Goto, Saves
  <2>2. TypeOK'
    BY <1>t, <1>1, <1>2, <2>1 DEF TypeOK, Cards
  <2>3. CardInv'
    BY <1>1, <1>3, <1>s, <2>1
       DEF CardInv, CardAllowed, WritesBackup, WritesPrimary, WritesFirst
  <2>4. PickerInv'
    BY <1>1, <1>s, <2>1 DEF PickerInv, RestartShowsTheme, Saving
  <2> QED BY <2>2, <2>3, <2>4 DEF StoreInv
<1>5. CASE /\ save.file = "primary" /\ card.primary = save.id /\ UNCHANGED card
           /\ save' = [save EXCEPT !.pc = "saved"]
  <2>1. /\ save'.pc = "saved" /\ save'.id = save.id /\ save'.file = save.file
        /\ save'.previous = save.previous
        /\ save' \in Saves
    BY <1>s, <1>5 DEF Saves
  <2>2. TypeOK'
    BY <1>t, <1>1, <1>2, <2>1 DEF TypeOK, Cards
  <2>3. CardInv'
    BY <1>1, <1>3, <1>s, <2>1
       DEF CardInv, CardAllowed, WritesBackup, WritesPrimary, WritesFirst
  <2>4. PickerInv'
    BY <1>1, <1>5, <1>s, <2>1 DEF PickerInv, RestartShowsTheme, Saving
  <2> QED BY <2>2, <2>3, <2>4 DEF StoreInv
<1>6. CASE /\ save.file = "backup" /\ card.backup = save.previous /\ UNCHANGED card
           /\ save' = [save EXCEPT !.file = "primary", !.pc = "open"]
  <2>1. /\ save'.pc = "open" /\ save'.id = save.id /\ save'.file = "primary"
        /\ save'.previous = save.previous
        /\ save' \in Saves
    BY <1>s, <1>6 DEF Files, Saves
  <2>2. TypeOK'
    BY <1>t, <1>1, <1>2, <2>1 DEF TypeOK, Cards
  <2>3. WritesBackup(card)
    BY <1>t, <1>1, <1>6 DEF CardInv, CardAllowed, WritesBackup, WritesPrimary, WritesFirst
  <2>4. CardInv'
    BY <1>1, <1>6, <1>s, <2>1, <2>3
       DEF CardInv, CardAllowed, WritesBackup, WritesPrimary
  <2>5. PickerInv'
    BY <1>1, <1>s, <2>1 DEF PickerInv, RestartShowsTheme, Saving
  <2> QED BY <2>2, <2>4, <2>5 DEF StoreInv
<1> QED BY <1>t, <1>4, <1>5, <1>6, FileStepSave

-----------------------------------------------------------------------------
(* The picker's keys, the return of a save and the loss of power.           *)

LEMMA KeyInv == ASSUME StoreInv, Open \/ Cancel \/ Preview PROVE StoreInv'
<1>t. TypeOK /\ CardInv /\ PickerInv /\ picker \in Pickers
  BY SaveTypes DEF StoreInv
<1>1. save.pc = "idle" /\ UNCHANGED <<card, save, before, lost>> /\ left' \in 0..MaxEvents
  BY <1>t, EventTypes DEF Open, Cancel, Preview, Key, PickerOnly
<1>2. CASE Open
  <2>1. picker' = [picker EXCEPT !.open = TRUE, !.failed = FALSE,
                     !.original = picker.theme, !.preview = picker.theme] /\ ~picker.open
    BY <1>2 DEF Open
  <2>2. /\ picker' \in Pickers /\ picker'.open /\ picker'.theme = picker.theme
        /\ picker'.original = picker.theme /\ picker'.preview = picker.theme
    BY <1>t, <2>1 DEF Pickers
  <2> QED BY <1>t, <1>1, <2>1, <2>2
          DEF StoreInv, TypeOK, CardInv, PickerInv, RestartShowsTheme, Saving, Shown, Pickers
<1>3. CASE Cancel
  <2>1. picker' = [picker EXCEPT !.open = FALSE, !.theme = picker.original] /\ picker.open
    BY <1>3 DEF Cancel
  <2>2. picker' \in Pickers /\ ~picker'.open /\ picker'.theme = picker.original
    BY <1>t, <2>1 DEF Pickers
  <2> QED BY <1>t, <1>1, <2>1, <2>2
          DEF StoreInv, TypeOK, CardInv, PickerInv, RestartShowsTheme, Saving, Shown, Pickers
<1>4. CASE Preview
  <2>1. PICK step \in {1, ThemeCount - 1} :
          picker' = [picker EXCEPT !.preview = Stepped(step), !.theme = Stepped(step),
                                   !.failed = FALSE]
    BY <1>4 DEF Preview
  <2>2. picker.open /\ Stepped(step) \in Themes
    BY <1>t, <1>4, SteppedIsATheme DEF Preview, Stepped, Pickers
  <2>3. /\ picker' \in Pickers /\ picker'.open /\ picker'.original = picker.original
        /\ picker'.theme = picker'.preview
    BY <1>t, <2>1, <2>2 DEF Pickers
  <2> QED BY <1>t, <1>1, <2>2, <2>3
          DEF StoreInv, TypeOK, CardInv, PickerInv, RestartShowsTheme, Saving, Shown, Pickers
<1> QED BY <1>2, <1>3, <1>4

LEMMA ConfirmInv == ASSUME StoreInv, Confirm PROVE StoreInv'
<1>t. TypeOK /\ CardInv /\ PickerInv /\ picker \in Pickers /\ card \in Cards
  BY SaveTypes DEF StoreInv
<1>1. /\ save.pc = "idle" /\ picker.open /\ before' = card
      /\ UNCHANGED <<card, picker, lost>> /\ left' \in 0..MaxEvents
  BY <1>t, EventTypes DEF Confirm, Key
<1>2. PICK old \in {card.primary, NoTheme} :
        save' = [pc |-> CASE old = picker.preview -> "saved" [] OTHER -> "open",
                 id |-> picker.preview, file |-> FirstFile(old), previous |-> old]
  BY DEF Confirm
<1>3. /\ save'.pc = (IF old = picker.preview THEN "saved" ELSE "open")
      /\ save'.id = picker.preview /\ save'.file = FirstFile(old) /\ save'.previous = old
  BY <1>2
<1>4. picker.preview \in Themes /\ old \in Themes \cup {NoTheme} /\ FirstFile(old) \in Files
  BY <1>t, CardFiles DEF Pickers, FirstFile, Files
<1>5. TypeOK'
  <2>1. save' \in Saves
    BY <1>2, <1>4 DEF Saves
  <2> QED BY <1>t, <1>1, <2>1 DEF TypeOK
<1>6. CardInv'
  BY <1>1, <1>3, <1>4
     DEF CardInv, CardAllowed, WritesBackup, WritesPrimary, WritesFirst, FirstFile
<1>7. PickerInv'
  BY <1>t, <1>1, <1>3, <1>4, ThemeFacts DEF PickerInv, RestartShowsTheme, Saving
<1> QED BY <1>5, <1>6, <1>7 DEF StoreInv

LEMMA ReturnInv == ASSUME StoreInv, Return PROVE StoreInv'
<1>t. TypeOK /\ CardInv /\ PickerInv /\ picker \in Pickers /\ card \in Cards
  BY SaveTypes DEF StoreInv
<1> DEFINE ok == save.pc = "saved"
<1>1. /\ Saving /\ save.id \in Themes /\ save.id = picker.preview
      /\ picker.theme = picker.preview
      /\ picker' = [picker EXCEPT !.original = save.id, !.failed = ~ok, !.open = ~ok]
      /\ lost' = ~ok
      /\ save' = NoSave /\ before' = card /\ UNCHANGED <<card, left>>
  BY <1>t DEF Return, Saving, CardInv, PickerInv
<1>2. /\ picker' \in Pickers /\ picker'.open = ~ok
      /\ picker'.theme = picker.theme /\ picker'.preview = picker.preview
  BY <1>t, <1>1 DEF Pickers
<1>3. /\ save'.pc = "idle"
      /\ save' \in Saves
  BY <1>1 DEF NoSave, Files, Saves
<1>4. TypeOK'
  BY <1>t, <1>1, <1>2, <1>3 DEF TypeOK, Pickers, Cards
<1>5. ok => picker.theme = Shown(card)
  BY <1>t, <1>1, ThemeFacts DEF PickerInv, Shown, Load
<1>6. CardInv' /\ PickerInv'
  BY <1>1, <1>2, <1>3, <1>5 DEF CardInv, PickerInv, RestartShowsTheme, Saving, Shown
<1> QED BY <1>4, <1>6 DEF StoreInv

LEMMA PowerLossInv == ASSUME StoreInv, PowerLoss PROVE StoreInv'
<1>t. TypeOK /\ card \in Cards
  BY SaveTypes DEF StoreInv
<1>1. /\ picker' = Started(card') /\ save' = NoSave /\ before' = card' /\ lost' = FALSE
      /\ left' \in 0..MaxEvents
  BY <1>t, EventTypes DEF PowerLoss
<1>2. card' \in Cards
  BY <1>t, PutCard, LeavingsTyped DEF PowerLoss, Leavings
<1>3. /\ picker' \in Pickers /\ ~picker'.open /\ picker'.theme = Shown(card')
  BY <1>1, <1>2, StartedTypes DEF Started
<1>4. /\ save'.pc = "idle"
      /\ save' \in Saves
  BY <1>1 DEF NoSave, Files, Saves
<1>5. TypeOK'
  BY <1>1, <1>2, <1>3, <1>4 DEF TypeOK, Pickers, Cards
<1> QED BY <1>1, <1>3, <1>4, <1>5
        DEF StoreInv, CardInv, PickerInv, RestartShowsTheme, Saving, Shown

LEMMA StoreInit == Init => StoreInv
<1> SUFFICES ASSUME Init PROVE StoreInv
  OBVIOUS
<1>1. card \in Cards /\ picker = Started(card) /\ save = NoSave /\ before = card
      /\ lost = FALSE /\ left \in 0..MaxEvents
  BY ThemeStoreAssumption DEF Init, Cards
<1>2. /\ picker \in Pickers /\ ~picker.open /\ picker.theme = Shown(card)
  BY <1>1, StartedTypes DEF Started
<1>3. /\ save.pc = "idle"
      /\ save \in Saves
  BY <1>1 DEF NoSave, Files, Saves
<1>4. TypeOK
  BY <1>1, <1>2, <1>3 DEF TypeOK, Pickers, Cards
<1> QED BY <1>1, <1>2, <1>3, <1>4
        DEF StoreInv, CardInv, PickerInv, RestartShowsTheme, Saving, Shown

LEMMA StoreStep == StoreInv /\ [Next]_vars => StoreInv'
<1>1. ASSUME StoreInv, UNCHANGED vars PROVE StoreInv'
  BY <1>1
     DEF vars, StoreInv, TypeOK, CardInv, PickerInv, RestartShowsTheme, Saving, Shown,
         CardAllowed, WritesBackup, WritesPrimary, WritesFirst
<1> QED BY <1>1, FileStepInv, KeyInv, ConfirmInv, ReturnInv, PowerLossInv DEF Next, FileStep

-----------------------------------------------------------------------------
(* The theorems.                                                            *)

(* The inductive invariant of the theme preference.                         *)
THEOREM StoreInvariant == Spec => []StoreInv
BY StoreInit, StoreStep, PTL DEF Spec

(* The picker and the store keep their types: what is previewed wraps at    *)
(* the last theme, and a save never goes beyond its two files.              *)
THEOREM StoreTypes == Spec => []TypeOK
<1>1. StoreInv => TypeOK
  BY DEF StoreInv
<1> QED BY <1>1, StoreInvariant, PTL

(* While the picker is closed, and unless a save has failed, a restart      *)
(* shows the theme that is on the screen, for any number of themes.         *)
THEOREM RestartsShowTheTheme == Spec => []RestartShowsTheme
<1>1. StoreInv => RestartShowsTheme
  BY DEF StoreInv, PickerInv
<1> QED BY <1>1, StoreInvariant, PTL

(* A card the save may leave loads the old theme or the new one; a blind    *)
(* save may uncover the old backup.                                         *)
LEMMA AllowedLoads ==
  ASSUME TypeOK, NEW c \in Cards, CardAllowed(c)
  PROVE  \/ Load(c) \in {Load(before), save.id}
         \/ Blind /\ Load(c) = before.backup
BY SaveTypes DEF CardAllowed, WritesBackup, WritesPrimary, WritesFirst, Load, Blind

(* The save of miniiptv_theme_store_save is atomic: whatever fails in it    *)
(* and whenever the power goes, a restart loads the theme from before it or *)
(* the theme it saves, for any number of themes, failures and restarts.     *)
THEOREM SavesAreAtomic == Spec => SaveAtomic
<1>1. StoreInv /\ [Next]_vars =>
        [IF save.pc = "idle" THEN Load(card') = Load(card)
         ELSE \/ Load(card') \in {Load(before), save.id}
              \/ Blind /\ Load(card') = before.backup]_vars
  <2> SUFFICES ASSUME StoreInv, Next
               PROVE  IF save.pc = "idle" THEN Load(card') = Load(card)
                      ELSE \/ Load(card') \in {Load(before), save.id}
                           \/ Blind /\ Load(card') = before.backup
    OBVIOUS
  <2>t. TypeOK /\ CardInv /\ card' \in Cards
    BY StoreStep, SaveTypes DEF StoreInv, Cards, TypeOK
  <2>1. CASE save.pc = "idle"
    BY <2>1 DEF Next, Open, Cancel, Preview, Confirm, Key, PickerOnly, OpenFile, WriteFile,
               CloseFile, Verify, Return, PowerLoss, Load
  <2>2. CASE Saving
    <3>1. ASSUME FileStep PROVE CardAllowed(card')
      BY <2>t, <3>1, FileStepAllowed
    <3>2. ASSUME PowerLoss, save.pc = "close" PROVE CardAllowed(card')
      <4>1. PICK t \in Leavings : Put(t)
        BY <3>2 DEF PowerLoss, Leavings
      <4> QED BY <2>t, <2>2, <4>1, PutAllowed
    <3>3. ASSUME ~FileStep, ~(PowerLoss /\ save.pc = "close") PROVE CardAllowed(card')
      <4>1. UNCHANGED card
        BY <2>2, <3>3 DEF Saving, FileStep, Next, Open, Cancel, Preview, Confirm, Key,
                          PickerOnly, Return, PowerLoss
      <4> QED BY <2>t, <2>2, <4>1
              DEF CardInv, CardAllowed, WritesBackup, WritesPrimary, WritesFirst
    <3>4. CardAllowed(card')
      BY <3>1, <3>2, <3>3
    <3> QED BY <2>t, <2>2, <3>4, AllowedLoads DEF Saving
  <2> QED BY <2>1, <2>2 DEF Saving
<1> QED BY <1>1, StoreInvariant, PTL DEF Spec, SaveAtomic
=============================================================================
