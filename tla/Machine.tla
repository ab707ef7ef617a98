------------------------------ MODULE Machine -------------------------------
(***************************************************************************)
(* The TT from power-on to the desktop: the boot card and the ROMs that    *)
(* read it (BootDisk), the copy-engine hook in the graphics driver         *)
(* (MonoEngine) and the screen saver (Saver).  They never run at the same  *)
(* time, or share nothing but the screen: the saver draws straight into    *)
(* video RAM under the AES lock, so no VDI call that respects the lock     *)
(* meets it.  They are checked side by side, each behaviour being of one.  *)
(***************************************************************************)
EXTENDS BootDisk, MonoEngine, Saver

VARIABLE
    subject     \* what this behaviour is about

vars == <<subject, bootVars, monoVars, saverVars>>

\* The card and the ROM of a behaviour that starts after the boot.
Booted ==
    /\ card = <<>> /\ trees = <<>> /\ want = {} /\ ops = 0 /\ todo = {} /\ pkg = NoPkg
    /\ twin = FALSE /\ tool = "unused" /\ out = <<>>
    /\ rom = 0 /\ machine = <<>> /\ fw = FwInit /\ bus = Free /\ console = <<>>

Init ==
    /\ subject \in {"boot", "hook", "saver"}
    /\ IF subject = "boot" THEN BootInit ELSE Booted
    /\ MonoInit /\ SaverInit
    /\ subject # "hook" => mode = [planes |-> 1, vrt8 |-> FALSE]
    /\ subject # "saver" => ~matrix

\* The saver is a process of a multitasking system: it goes on being scheduled.
Scheduled == subject = "saver" /\ SaverStep /\ UNCHANGED <<subject, bootVars, monoVars>>
\* The firmware never waits, and a target that can answer answers.
Runs == subject = "boot" /\ MachineStep /\ UNCHANGED <<subject, monoVars, saverVars>>

Next ==
    \/ Runs
    \/ subject = "boot" /\ ToolStep /\ UNCHANGED <<subject, monoVars, saverVars>>
    \/ subject = "hook" /\ (Install \/ Uninstall \/ Call) /\ UNCHANGED <<subject, bootVars, saverVars>>
    \/ Scheduled
    \/ subject = "saver" /\ (Bye \/ Draw \/ LoadPalette \/ Input) /\ UNCHANGED <<subject, bootVars, monoVars>>

Spec == Init /\ [][Next]_vars
FairSpec == Spec /\ WF_vars(Runs) /\ WF_vars(Scheduled)

-----------------------------------------------------------------------------
(* Properties *)

\* The screen's variables keep their ranges; the position of a drop and its tick stay inside what
\* the short and the byte of struct mx were given.
ScreenTypes ==
    /\ runs \in 0 .. MaxRuns /\ DOMAIN screen = Bytes
    /\ idle \in 0 .. Limit + Fallback /\ k \in 1 .. Chunks + 1
    /\ col.pos \in -2 * Rows .. Rows + Bands * BandLen
    /\ col.tick \in 0 .. MaxSpeed - 1 /\ col.speed \in 1 .. MaxSpeed
    /\ lut \in {Black} \union 0 .. MaxPals /\ lutSaved \in 0 .. MaxPals

\* A card that the tool wrote is the card the plan asked for: the files and their contents, the
\* order of the entries, chains that do not cross, and with tt_tospkg.py's plan no file lost
\* between the package and the card.  A plan is refused only for a reason.
CardAsPlanned ==
    subject = "boot" => AsPlanned /\ OrderKept /\ WellFormed /\ PackagedOrKept /\ RefusedForCause

\* What the ROMs print is true of the machine: the memory sizes, each target's own answer, every
\* target that answers, and the whole root directory of the card.
RomTellsTruth ==
    subject = "boot" => BootTypes /\ SizedRight /\ Attributed /\ AllFound /\ RootListed

\* However often atwmono comes and goes, its slots lead straight to the driver, and every copy and
\* fill leaves the pixels the VDI promises and none outside the screen; the screen saver gives back
\* what it took, whole, at every wake-up and at (almost) every signal.
ScreenRight ==
    /\ subject = "hook" => SlotsSound /\ AsDrawn /\ NoStray
    /\ subject = "saver" => ScreenTypes /\ PictureBack /\ ColoursBack /\ RestoreSafe /\ TailShape

\* Whatever the hardware does every ROM comes to its last line, and whatever the screen saver is
\* doing an input brings the screen back and gives the lock up.
ComesBack == LastLine /\ Wakes
=============================================================================
