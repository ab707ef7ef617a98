------------------------------- MODULE Saver -------------------------------
(***************************************************************************)
(* src/atwbg/ttsaver.c with matrix.c: the screen saver.  After a time      *)
(* without input it takes the AES screen lock and either blanks the colour *)
(* table or saves the picture, chunk by chunk, and animates; any input or  *)
(* a signal brings the picture back.  Programs that hold no lock draw,     *)
(* atwpal loads a palette, the user moves the mouse, a signal may arrive   *)
(* between any two steps of the saver.                                     *)
(*                                                                         *)
(* Of the animation there is one column: a drop with a head, Bands bands   *)
(* of BandLen rows behind it, and the row that leaves the tail.            *)
(***************************************************************************)
EXTENDS Integers, FiniteSets

CONSTANTS
    Chunks,         \* the screen is copied in chunks 1..Chunks
    Limit,          \* idle rounds before the saver starts
    Fallback,       \* idle frames before the animation gives way to a blank screen
    Rows, Bands, BandLen, MaxSpeed,   \* the column of drops
    MaxDraws, MaxPals, MaxInputs      \* bounds on the others' steps

ASSUME SaverAssumption ==
    /\ Chunks \in Nat \ {0} /\ Limit \in Nat \ {0} /\ Fallback \in Nat \ {0}
    /\ Rows \in Nat \ {0} /\ Bands \in Nat \ {0} /\ BandLen \in Nat \ {0} /\ MaxSpeed \in Nat \ {0}

VARIABLES
    pc,         \* where main is
    k,          \* chunk of the copy in hand
    matrix,     \* -x matrix
    idle,       \* rounds or frames without input
    seen, input,\* the keyboard and mouse state last compared, and now
    locked,     \* the AES screen lock
    off, blanked, lutSaved,
    anim, saved,    \* the animation runs; the copied picture, NoPicture when freed
    lut, pal,   \* the card's colour table; the palette programs believe in
    vram, pic,  \* the screen by chunks; the picture programs believe in
    col,        \* the column: position of the drop, tick, speed, and what each row shows
    gone        \* where main was when a signal ended the saver

saverVars == <<pc, k, matrix, idle, seen, input, locked, off, blanked, lutSaved, anim, saved, lut, pal,
               vram, pic, col, gone>>

NoPicture == -1
Black == -1
Rain == -2
AllChunks == 1 .. Chunks
Shows(n) == [c \in AllChunks |-> n]
BgCell == -1
HeadCell == -2        \* a band is its number
Background == [r \in 0 .. Rows - 1 |-> BgCell]
NoColumn == [pos |-> -1, tick |-> 0, speed |-> 1, rows |-> Background]

SaverInit ==
    /\ pc = "wait" /\ k = 1 /\ matrix \in BOOLEAN /\ idle = 0
    /\ seen = 0 /\ input = 0 /\ locked = FALSE
    /\ off = FALSE /\ blanked = FALSE /\ lutSaved = 0 /\ anim = FALSE /\ saved = Shows(NoPicture)
    /\ lut = 0 /\ pal = 0 /\ vram = Shows(0) /\ pic = 0
    /\ col = NoColumn /\ gone = "no"

-----------------------------------------------------------------------------
(* mx_frame: one step of the column.  p is its next start, s its next speed. *)

Row(h) == h - 1 - Bands * BandLen

\* The head, the row that enters each band and the row that leaves the tail.
Painted(rows, h) ==
    [r \in DOMAIN rows |->
        IF r = h THEN HeadCell
        ELSE IF \E b \in 0 .. Bands - 1 : r = h - 1 - b * BandLen
        THEN CHOOSE b \in 0 .. Bands - 1 : r = h - 1 - b * BandLen
        ELSE IF r = Row(h) THEN BgCell ELSE rows[r]]

OffEnd(h) == Row(h) >= Rows - 1

FrameStep(c, p, s) ==
    IF c.pos < 0
    THEN [c EXCEPT !.pos = c.pos + 1, !.speed = IF c.pos = -1 THEN s ELSE @,
                   !.tick = IF c.pos = -1 THEN 0 ELSE @]
    ELSE IF c.tick + 1 < c.speed THEN [c EXCEPT !.tick = @ + 1]
    ELSE [c EXCEPT !.tick = 0, !.rows = Painted(c.rows, c.pos),
                   !.pos = IF OffEnd(c.pos) THEN -1 - p ELSE c.pos + 1]

-----------------------------------------------------------------------------
(* main *)

Still == UNCHANGED <<matrix, input, pal, pic, gone>>

\* One round: a frame of the animation or a quarter of a second of sleep.
Round ==
    /\ pc = "wait"
    /\ pc' = "look"
    /\ IF anim THEN \E p \in 0 .. Rows - 1, s \in 1 .. MaxSpeed : col' = FrameStep(col, p, s)
       ELSE UNCHANGED col
    /\ UNCHANGED <<k, idle, seen, locked, off, blanked, lutSaved, anim, saved, lut, vram>>
    /\ Still

\* Where an input sends main: first the picture, then the colours, then the lock.
Wake == IF anim THEN "stop" ELSE "lit"

Due == ~anim /\ ~off /\ idle + 1 >= Limit
Fade == anim /\ idle + 1 >= Fallback

Look ==
    /\ pc = "look"
    /\ seen' = input
    /\ idle' = IF input # seen THEN 0 ELSE IF anim \/ ~off THEN idle + 1 ELSE idle
    /\ k' = 1
    /\ pc' = IF input # seen THEN Wake
             ELSE IF Fade THEN "fade" ELSE IF Due THEN "lock" ELSE "wait"
    /\ UNCHANGED <<locked, off, blanked, lutSaved, anim, saved, lut, vram, col>>
    /\ Still

Stopping == pc \in {"stop", "fade"}

\* matrix_stop: the picture comes back chunk by chunk; anim is cleared before the buffer goes.
Stop ==
    /\ Stopping
    /\ IF k <= Chunks
       THEN /\ vram' = [vram EXCEPT ![k] = saved[k]]
            /\ k' = k + 1
            /\ UNCHANGED <<pc, anim, col>>
       ELSE /\ anim' = FALSE
            /\ pc' = IF pc = "stop" THEN "free" ELSE "freefade"
            /\ UNCHANGED <<vram, k, col>>
    /\ UNCHANGED <<idle, seen, locked, off, blanked, lutSaved, saved, lut>>
    /\ Still

FreeBuffers ==
    /\ pc \in {"free", "freefade"}
    /\ saved' = Shows(NoPicture) /\ col' = NoColumn
    /\ pc' = IF pc = "free" THEN "lit" ELSE "blank"
    /\ UNCHANGED <<k, idle, seen, locked, off, blanked, lutSaved, anim, lut, vram>>
    /\ Still

Lit ==
    /\ pc = "lit"
    /\ lut' = IF off /\ blanked THEN lutSaved ELSE lut
    /\ blanked' = IF off THEN FALSE ELSE blanked
    /\ pc' = "offclear"
    /\ UNCHANGED <<k, idle, seen, locked, off, lutSaved, anim, saved, vram, col>>
    /\ Still

OffClear ==
    /\ pc = "offclear"
    /\ off' = FALSE
    /\ pc' = "unlock"
    /\ UNCHANGED <<k, idle, seen, locked, blanked, lutSaved, anim, saved, lut, vram, col>>
    /\ Still

Unlock ==
    /\ pc \in {"unlock", "unlock_early"}
    /\ locked' = FALSE
    /\ pc' = IF pc = "unlock" THEN "wait" ELSE IF anim THEN "stop" ELSE "lit"
    /\ UNCHANGED <<k, idle, seen, off, blanked, lutSaved, anim, saved, lut, vram, col>>
    /\ Still

\* wind_update waits for a program that is drawing; a drawing is one step here.
Lock ==
    /\ pc = "lock"
    /\ locked' = TRUE
    /\ pc' = IF matrix THEN "start" ELSE "blank"
    /\ UNCHANGED <<k, idle, seen, off, blanked, lutSaved, anim, saved, lut, vram, col>>
    /\ Still

\* matrix_start: no memory or not a mode it can draw in means a blank screen instead.
StartFails ==
    /\ pc = "start" /\ k = 1
    /\ pc' = "blank"
    /\ UNCHANGED <<k, idle, seen, locked, off, blanked, lutSaved, anim, saved, lut, vram, col>>
    /\ Still

AfterSave == IF k <= Chunks THEN anim ELSE TRUE

\* The picture is saved; only then may a signal restore it.
Start ==
    /\ pc = "start"
    /\ anim' = AfterSave
    /\ IF k <= Chunks
       THEN /\ saved' = [saved EXCEPT ![k] = vram[k]]
            /\ k' = k + 1
            /\ UNCHANGED <<pc, col, idle>>
       ELSE /\ \E p \in 0 .. 2 * Rows - 1 : col' = [NoColumn EXCEPT !.pos = -1 - p]
            /\ k' = 1 /\ pc' = "clear" /\ UNCHANGED <<saved, idle>>
    /\ UNCHANGED <<seen, locked, off, blanked, lutSaved, lut, vram>>
    /\ Still

Clear ==
    /\ pc = "clear"
    /\ vram' = [vram EXCEPT ![k] = Rain]
    /\ k' = IF k = Chunks THEN 1 ELSE k + 1
    /\ pc' = IF k = Chunks THEN "wait" ELSE pc
    /\ idle' = IF k = Chunks THEN 0 ELSE idle
    /\ UNCHANGED <<seen, locked, off, blanked, lutSaved, anim, saved, lut, col>>
    /\ Still

\* scr_off; the flag for the signal handler is set by the next step.
Blank ==
    /\ pc = "blank"
    /\ lutSaved' = IF blanked THEN lutSaved ELSE lut
    /\ lut' = Black /\ blanked' = TRUE
    /\ pc' = "offset"
    /\ UNCHANGED <<k, idle, seen, locked, off, anim, saved, vram, col>>
    /\ Still

OffSet ==
    /\ pc = "offset"
    /\ off' = TRUE
    /\ pc' = "wait"
    /\ UNCHANGED <<k, idle, seen, locked, blanked, lutSaved, anim, saved, lut, vram, col>>
    /\ Still

ByeLut == IF off /\ blanked THEN lutSaved ELSE lut

\* bye: matrix_stop, scr_on, the lock, and out.
Bye ==
    /\ gone = "no" /\ pc # "gone"
    /\ gone' = pc /\ pc' = "gone"
    /\ vram' = IF anim THEN saved ELSE vram
    /\ anim' = FALSE
    /\ saved' = Shows(NoPicture)
    /\ col' = NoColumn
    /\ lut' = ByeLut
    /\ blanked' = (blanked /\ ~off)
    /\ locked' = FALSE
    /\ UNCHANGED <<k, matrix, idle, seen, input, off, lutSaved, pal, pic>>

SaverStep == \/ Round \/ Look \/ Stop \/ FreeBuffers \/ Lit \/ OffClear \/ Unlock \/ Lock
             \/ StartFails \/ Start \/ Clear \/ Blank \/ OffSet

-----------------------------------------------------------------------------
(* The others on the screen *)

\* A program draws only while nobody holds the screen lock.
Draw ==
    /\ ~locked /\ pic < MaxDraws
    /\ pic' = pic + 1
    /\ vram' = Shows(pic + 1)
    /\ UNCHANGED <<pc, k, matrix, idle, seen, input, locked, off, blanked, lutSaved, anim, saved, lut, pal,
                   col, gone>>

\* atwpal -l; it takes no lock.  A palette loaded into a blanked table lasts until the wake-up.
LoadPalette ==
    /\ pal < MaxPals /\ ~blanked
    /\ pal' = pal + 1 /\ lut' = pal + 1
    /\ UNCHANGED <<pc, k, matrix, idle, seen, input, locked, off, blanked, lutSaved, anim, saved, vram, pic,
                   col, gone>>

Input ==
    /\ input < MaxInputs
    /\ input' = input + 1
    /\ UNCHANGED <<pc, k, matrix, idle, seen, locked, off, blanked, lutSaved, anim, saved, lut, pal, vram,
                   pic, col, gone>>

-----------------------------------------------------------------------------
(* Properties *)

AtRest == pc \in {"wait", "look", "lock"} /\ ~anim /\ ~off
SignalWindow == gone \in {"offset"}

\* Whenever the saver is neither animating nor blanking, and after every signal, the screen shows
\* the programs' last picture, whole.
PictureBack == AtRest \/ pc = "gone" => vram = Shows(pic)

\* The colours likewise are the palette last loaded, except after a signal that came between the
\* blanking and the flag that tells the handler of it.
ColoursBack == AtRest \/ (pc = "gone" /\ ~SignalWindow) => lut = pal

\* The handler never restores from a buffer that is not a whole copy of the picture.
RestoreSafe == anim => saved = Shows(pic)

\* What a column shows is a function of where its drop is: the head, full bands behind it, and
\* background everywhere else, so no cell stays lit when the drop has left the screen.
TailShape ==
    anim /\ pc = "wait" =>
        \A r \in 0 .. Rows - 1 :
            col.rows[r] =
                LET back == col.pos - 1 - r
                IN  IF col.pos <= 0 \/ back < 0 \/ back > Bands * BandLen THEN BgCell
                    ELSE IF back = 0 THEN HeadCell
                    ELSE (back - 1) \div BandLen

\* An input always brings the screen back and gives the lock up.
Wakes == (seen # input) ~> (pc = "gone" \/ (AtRest /\ ~locked))
=============================================================================
