------------------------------ MODULE Firmware ------------------------------
(***************************************************************************)
(* The custom boot ROMs of sam-rom-tt: rom1 and rom2 size the RAM, rom3    *)
(* scans the SCSI bus and rom4 lists the first partition of target 0.      *)
(* Interrupts are off and the only other actor is the target on the SCSI   *)
(* bus (external).  A byte crosses the bus in one step, and the loops of   *)
(* the code are loops here: 512 MB, 7 targets, 6 and 10 command bytes and  *)
(* the length of the data are scaled to the constants.                     *)
(***************************************************************************)
EXTENDS Integers, Sequences, FiniteSets, SequencesExt

CONSTANTS
    MaxMB,      \* where probe stops counting: 512 in the code
    Targets,    \* the ids that rom3 scans: 0..6 in the code
    NCmd,       \* bytes of a command
    NData,      \* bytes of an INQUIRY answer and of a block
    EPB,        \* directory entries in a block: 16 in the code
    Late        \* may a target answer after the firmware has given up on it?

VARIABLES
    rom,        \* which ROM is plugged in: 1..4
    machine,    \* the hardware: MB of ST and TT RAM, an FPU, a 5380, what each target does
    fw,         \* the program: pc, its loop variables and the received bytes
    bus,        \* the target that holds BSY, its phase, the bytes left in it, REQ, hung
    console     \* the lines sent over the serial port

firmwareVars == <<rom, machine, fw, bus, console>>

NoTarget == -1
Free == [who |-> NoTarget, phase |-> "free", left |-> 0, req |-> FALSE, hung |-> FALSE, block |-> 0]

FwInit == [pc |-> "start", mb |-> 0, area |-> "st", t |-> 0, block |-> 0, sent |-> 0,
           buf |-> <<>>, part |-> 0, i |-> -1, bej |-> FALSE]

Line(s) == console' = Append(console, s)
Goto(p) == fw' = [fw EXCEPT !.pc = p]

-----------------------------------------------------------------------------
(* rom1 and rom2 *)

\* Mutant: bus_error_jump is not set.
Armed_Never(r) == FALSE

\* rom3 and rom4 set bus_error_jump before they touch the chip.
Armed(r) == r \in {3, 4}

PowerOn ==
    /\ fw.pc = "start"
    /\ fw' = [fw EXCEPT !.pc = CASE rom = 1 -> "probe" [] rom = 2 -> "report" [] OTHER -> "reset",
                        !.bej = Armed(rom)]
    /\ Line(<<"banner", rom>>)
    /\ UNCHANGED <<rom, machine, bus>>

\* rom2 reports the caches and the FPU; line F comes back at fpu_none.
Report ==
    /\ fw.pc = "report"
    /\ Line(<<"fpu", machine.fpu>>)
    /\ Goto("probe")
    /\ UNCHANGED <<rom, machine, bus>>

Present(area, mb) == mb < (IF area = "st" THEN machine.st ELSE machine.tt)

Counted(n) == n = MaxMB

\* One megabyte: the signature is written and read back; absent memory raises a bus error, whose
\* handler ends the probe with the count so far.
Probe ==
    /\ fw.pc = "probe"
    /\ IF Present(fw.area, fw.mb)
       THEN fw' = [fw EXCEPT !.mb = @ + 1, !.pc = IF Counted(fw.mb + 1) THEN "sized" ELSE "probe"]
       ELSE Goto("sized")
    /\ UNCHANGED <<rom, machine, bus, console>>

ProbeFrom(area) == [fw EXCEPT !.area = area, !.mb = 0, !.pc = "probe"]

Sized ==
    /\ fw.pc = "sized"
    /\ Line(<<fw.area, fw.mb>>)
    /\ fw' = IF fw.area = "st" THEN ProbeFrom("tt") ELSE [fw EXCEPT !.pc = "done"]
    /\ UNCHANGED <<rom, machine, bus>>

-----------------------------------------------------------------------------
(* tt.c: the 5380 *)

\* The first touch of a register of a chip that is not there: start3.S resumes at bus_error_jump,
\* and halts if there is none.
BusError ==
    /\ fw.pc = "reset" /\ ~machine.chip
    /\ IF fw.bej THEN /\ Line(<<"nochip">>)
                      /\ fw' = [fw EXCEPT !.pc = "halt", !.bej = FALSE]
       ELSE Goto("halt") /\ UNCHANGED console
    /\ UNCHANGED <<rom, machine, bus>>

Reset ==
    /\ fw.pc = "reset" /\ machine.chip
    /\ bus' = Free
    /\ fw' = [fw EXCEPT !.pc = "select", !.block = 0]
    /\ UNCHANGED <<rom, machine, console>>

Answers(t) == machine.kind[t] # "absent"

\* SEL is raised with the target's bit.  Any BSY on the bus ends the wait: a free bus gives it to
\* the target that is addressed, a bus that an earlier target still holds shows that one's.
Selected(t) ==
    IF bus.who = NoTarget /\ Answers(t)
    THEN [Free EXCEPT !.who = t, !.phase = "command", !.left = NCmd, !.block = fw.block]
    ELSE bus

Select ==
    /\ fw.pc = "select"
    /\ bus' = Selected(fw.t)
    /\ fw' = [fw EXCEPT !.pc = IF bus'.who = NoTarget THEN "failed" ELSE "xfer",
                        !.sent = 0, !.buf = <<>>]
    /\ UNCHANGED <<rom, machine, console>>

\* The phase that xfer waits for; it is written to the chip and never compared with the bus.
Phase(n) == CASE n < NCmd -> "command" [] n < NCmd + NData -> "data"
              [] n = NCmd + NData -> "status" [] OTHER -> "message"

\* The byte that the target puts on the bus: of its data, or its status or message.
Byte == <<bus.who, bus.block, IF bus.phase = "data" THEN NData - bus.left ELSE -1>>

Missing(kind) == CASE kind = "short1" -> 1 [] kind = "short2" -> 2 [] OTHER -> 0

NextPhase ==
    LET kind == machine.kind[bus.who]
    IN  CASE bus.phase = "command" -> IF kind = "check" THEN <<"status", 1>>
                                      ELSE <<"data", NData - Missing(kind)>>
          [] bus.phase = "data" -> <<"status", 1>>
          [] bus.phase = "status" -> <<"message", 1>>
          [] OTHER -> <<"free", 0>>

\* The target after one byte: within its phase, in the next one, or off the bus.
AfterByte ==
    IF bus.left > 1 THEN [bus EXCEPT !.left = @ - 1, !.req = FALSE]
    ELSE IF NextPhase[1] = "free" THEN Free
    ELSE [bus EXCEPT !.phase = NextPhase[1], !.left = NextPhase[2], !.req = FALSE]

Keeps(n) == Phase(n) = "data"

\* xfer with REQ up: one byte, whatever the target means by it.
Xfer ==
    /\ fw.pc = "xfer" /\ bus.req
    /\ bus' = AfterByte
    /\ fw' = [fw EXCEPT !.sent = @ + 1,
                        !.buf = IF Keeps(fw.sent) THEN Append(@, Byte) ELSE @,
                        !.pc = IF fw.sent = NCmd + NData + 1 THEN "got" ELSE "xfer"]
    /\ UNCHANGED <<rom, machine, console>>

\* What a timeout in a phase makes of the command: only the last message byte is not needed.
TimedOut(n) == IF Phase(n) = "message" THEN "got" ELSE "failed"

WillRequest == bus.who # NoTarget /\ ~bus.hung

\* SPIN polls without REQ.  A target that is going to answer does so in that time, unless Late.
Timeout ==
    /\ fw.pc = "xfer" /\ ~bus.req
    /\ WillRequest => Late
    /\ Goto(TimedOut(fw.sent))
    /\ UNCHANGED <<rom, machine, bus, console>>

TargetRequests ==
    /\ WillRequest /\ ~bus.req
    /\ bus' = [bus EXCEPT !.req = TRUE]
    /\ UNCHANGED <<rom, machine, fw, console>>

\* A target that stops in the middle of a command keeps BSY until the next reset.
TargetHangs ==
    /\ WillRequest /\ ~bus.req /\ machine.kind[bus.who] = "flaky"
    /\ bus' = [bus EXCEPT !.hung = TRUE]
    /\ UNCHANGED <<rom, machine, fw, console>>

-----------------------------------------------------------------------------
(* rom3: the scan *)

\* Mutant: the last target is skipped.
NextTarget_Short(t) == IF t + 1 \in Targets /\ t + 2 \in Targets
                       THEN [fw EXCEPT !.t = t + 1, !.pc = "select"] ELSE [fw EXCEPT !.pc = "done"]

NextTarget(t) == IF t + 1 \in Targets THEN [fw EXCEPT !.t = t + 1, !.pc = "select"]
                 ELSE [fw EXCEPT !.pc = "done"]

Scanned ==
    /\ rom = 3 /\ fw.pc \in {"got", "failed"}
    /\ IF fw.pc = "got" THEN Line(<<"target", fw.t, fw.buf>>) ELSE UNCHANGED console
    /\ fw' = NextTarget(fw.t)
    /\ UNCHANGED <<rom, machine, bus>>

-----------------------------------------------------------------------------
(* rom4: the root sector, the BPB and the root directory of target 0.  disk maps a block number   *)
(* to its contents: 0 is the table (start of each slot, 0 if unused), a partition's first block   *)
(* its BPB, and a directory block EPB entries.                                                    *)

Whole(b) == fw.buf = [n \in 1 .. NData |-> <<0, b, n - 1>>]
Block(disk, b) == IF Whole(b) /\ b \in DOMAIN disk THEN disk[b] ELSE <<>>

ReadBlock(b) == [fw EXCEPT !.block = b, !.pc = "select"]

FirstPart(table) ==
    LET used == {p \in 1 .. Len(table) : table[p] # 0}
    IN  IF used = {} THEN 0 ELSE table[CHOOSE p \in used : \A q \in used : p <= q]

TableRead(disk) ==
    /\ rom = 4 /\ fw.pc = "got" /\ fw.part = 0
    /\ LET start == FirstPart(Block(disk, 0))
       IN  IF start = 0 THEN Line(<<"no partitions">>) /\ Goto("done")
           ELSE /\ Line(<<"part", start>>)
                /\ fw' = [ReadBlock(start) EXCEPT !.part = start, !.i = -1]
    /\ UNCHANGED <<rom, machine, bus>>

\* Every offset of the BPB is in logical sectors of lsec blocks.
RootStart(part, bpb) == part + bpb.res * bpb.lsec + bpb.nfats * bpb.fatsz * bpb.lsec
RootBlocks(bpb) == (bpb.nroot + EPB - 1) \div EPB

BpbRead(disk) ==
    /\ rom = 4 /\ fw.pc = "got" /\ fw.part # 0 /\ fw.i = -1
    /\ LET bpb == Block(disk, fw.part)
       IN  IF bpb.lsec = 0 THEN Line(<<"bpb looks wrong">>) /\ Goto("done")
           ELSE /\ Line(<<"bpb", RootStart(fw.part, bpb)>>)
                /\ fw' = IF RootBlocks(bpb) = 0 THEN [fw EXCEPT !.pc = "listed", !.i = 0]
                         ELSE [ReadBlock(RootStart(fw.part, bpb)) EXCEPT !.i = 0]
    /\ UNCHANGED <<rom, machine, bus>>

EndsHere(blk) == \E n \in 1 .. Len(blk) : blk[n].t = "zero"
UpToZero(blk) ==
    LET zeros == {n \in 1 .. Len(blk) : blk[n].t = "zero"}
    IN  IF zeros = {} THEN blk ELSE SubSeq(blk, 1, (CHOOSE n \in zeros : \A m \in zeros : n <= m) - 1)
Shown(blk) == SelectSeq(UpToZero(blk), LAMBDA e : e.t \in {"file", "dir"})

DirRead(disk) ==
    /\ rom = 4 /\ fw.pc = "got" /\ fw.i >= 0
    /\ LET blk == Block(disk, fw.block)
           bpb == disk[fw.part]
           shown == Shown(blk)
       IN  /\ console' = console \o [n \in 1 .. Len(shown) |-> <<"entry", shown[n].name, shown[n].size>>]
           /\ fw' = IF EndsHere(blk) \/ fw.i + 1 = RootBlocks(bpb) THEN [fw EXCEPT !.pc = "listed"]
                    ELSE [ReadBlock(fw.block + 1) EXCEPT !.i = fw.i + 1]
    /\ UNCHANGED <<rom, machine, bus>>

Listed ==
    /\ rom = 4 /\ fw.pc = "listed"
    /\ Line(<<"listed">>)
    /\ Goto("done")
    /\ UNCHANGED <<rom, machine, bus>>

ReadFailed ==
    /\ rom = 4 /\ fw.pc = "failed"
    /\ Line(<<"read failed">>)
    /\ Goto("done")
    /\ UNCHANGED <<rom, machine, bus>>

Done ==
    /\ fw.pc = "done"
    /\ Line(<<"done">>)
    /\ fw' = [fw EXCEPT !.pc = "halt", !.bej = FALSE]
    /\ UNCHANGED <<rom, machine, bus>>

FirmwareStep(disk) ==
    \/ PowerOn \/ Report \/ Probe \/ Sized \/ BusError \/ Reset \/ Select \/ Xfer \/ Timeout
    \/ Scanned \/ TableRead(disk) \/ BpbRead(disk) \/ DirRead(disk) \/ Listed \/ ReadFailed \/ Done

TargetStep == TargetRequests \/ TargetHangs
=============================================================================
