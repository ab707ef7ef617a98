----------------------------- MODULE MonoEngine -----------------------------
(***************************************************************************)
(* src/atwbg/atwmono.c: the resident hook that gives the mono screen's     *)
(* copies and fills to the graphics card's copy engine, and clips the      *)
(* transparent copy of the 8-plane driver.  The screen is H rows of Pitch  *)
(* bytes, a byte is B pixels (8 in the code).                              *)
(*                                                                         *)
(* A call is one VDI call of a program; the driver serves one at a time.   *)
(***************************************************************************)
EXTENDS Integers, FiniteSets

CONSTANTS
    B,          \* pixels in a byte
    Pitch,      \* bytes in a row
    H,          \* rows
    Threshold,  \* the area from which the engine fills: 65536 pixels in the code
    CopyCalls,  \* the copies programs make: [sx, sy, w, h, dx, dy, clip]
    FillCalls,  \* the fills: [x1, y1, x2, y2, clip]
    VrtCalls,   \* the transparent copies: [x1, y1, x2, y2, clip], the destination's corners
    MaxRuns,    \* runs of the atwmono program
    MaxCalls    \* copies and fills; they come after the runs

ASSUME ScreenAssumption == B \in Nat \ {0} /\ Pitch \in Nat \ {0} /\ H \in Nat \ {0} /\ MaxRuns \in Nat
                            /\ MaxCalls \in Nat

VARIABLES
    mode,       \* planes of the screen mode and the routine in its vrt slot: fixed for a boot
    slots,      \* the driver's blit slot, its fill call site and its vrt slot
    runs,       \* programs started; each is a copy of the hook
    resident,   \* the copies that stay in memory, with the slot each would go back to
    screen,     \* the pixels: [bytes -> [1..B -> value]]
    calls,      \* copies and fills made
    wanted,     \* the screen as the VDI defines the last call
    fault       \* the driver wrote outside the screen

monoVars == <<mode, slots, runs, resident, screen, calls, wanted, fault>>

Original == 0
W == Pitch * B
Bytes == 0 .. Pitch * H - 1
FullClip == [on |-> TRUE, x1 |-> 0, y1 |-> 0, x2 |-> W - 1, y2 |-> H - 1]
NoClip == [on |-> FALSE, x1 |-> 0, y1 |-> 0, x2 |-> 0, y2 |-> 0]
Ink == -1

MonoInit ==
    /\ mode \in [planes : {1, 8}, vrt8 : BOOLEAN]
    /\ slots = [blit |-> Original, fill |-> Original, vrt |-> Original]
    /\ runs = 0 /\ resident = {}
    /\ screen = [b \in Bytes |-> [j \in 1 .. B |-> b * B + j]]
    /\ calls = 0 /\ wanted = screen /\ fault = FALSE

-----------------------------------------------------------------------------
(* What the VDI promises: pixel by pixel, all at once. *)

Pixel(m, x, y) == m[y * Pitch + (x \div B)][(x % B) + 1]
ByPixel(P(_, _)) == [b \in Bytes |-> [j \in 1 .. B |-> P((b % Pitch) * B + j - 1, b \div Pitch)]]
Clipped(c, x, y) == ~c.on \/ (x >= c.x1 /\ x <= c.x2 /\ y >= c.y1 /\ y <= c.y2)

CopyReference(m, r) ==
    ByPixel(LAMBDA x, y :
        IF x >= r.dx /\ x < r.dx + r.w /\ y >= r.dy /\ y < r.dy + r.h /\ Clipped(r.clip, x, y)
        THEN Pixel(m, r.sx + x - r.dx, r.sy + y - r.dy) ELSE Pixel(m, x, y))

Lo(a, b) == IF a < b THEN a ELSE b
Hi(a, b) == IF a < b THEN b ELSE a

FillReference(m, r) ==
    ByPixel(LAMBDA x, y :
        IF x >= Lo(r.x1, r.x2) /\ x <= Hi(r.x1, r.x2) /\ y >= Lo(r.y1, r.y2) /\ y <= Hi(r.y1, r.y2)
           /\ Clipped(r.clip, x, y)
        THEN Ink ELSE Pixel(m, x, y))

-----------------------------------------------------------------------------
(* The copy engine: a byte at a time, rows of wb bytes, forwards or backwards from the given ends. *)

RECURSIVE Engine(_, _, _)
Engine(m, e, k) ==
    IF k = e.wb * e.h THEN m
    ELSE LET row == k \div e.wb
             col == k % e.wb
             s == e.src + row * e.spitch + e.step * col
             d == e.dst + row * e.dpitch + e.step * col
         IN  Engine([m EXCEPT ![d] = m[s]], e, k + 1)

-----------------------------------------------------------------------------
(* mono_blit_c *)

\* The destination clipped, the source moved with it.
ClipCopy(r) ==
    LET c == r.clip
        dx == Hi(r.dx, c.x1) dy == Hi(r.dy, c.y1)
        w == Lo(r.w - (dx - r.dx), c.x2 - dx + 1)
        h == Lo(r.h - (dy - r.dy), c.y2 - dy + 1)
    IN  IF ~c.on THEN r
        ELSE [r EXCEPT !.sx = r.sx + dx - r.dx, !.sy = r.sy + dy - r.dy, !.dx = dx, !.dy = dy,
                       !.w = w, !.h = h]

Aligned(r) == r.sx % B = 0 /\ r.dx % B = 0 /\ r.w % B = 0
              /\ r.sx >= 0 /\ r.sy >= 0 /\ r.dx >= 0 /\ r.dy >= 0

\* Mutant: an overlapping copy always runs forwards.
Backwards_Never(so, d) == FALSE

Backwards(so, d) == d > so

EngineCopy(m, r) ==
    LET so == r.sy * Pitch + r.sx \div B
        d == r.dy * Pitch + r.dx \div B
        wb == r.w \div B
        far == (r.h - 1) * Pitch + wb - 1
    IN  IF Backwards(so, d)
        THEN Engine(m, [src |-> so + far, dst |-> d + far, spitch |-> -Pitch, dpitch |-> -Pitch,
                        step |-> -1, wb |-> wb, h |-> r.h], 0)
        ELSE Engine(m, [src |-> so, dst |-> d, spitch |-> Pitch, dpitch |-> Pitch, step |-> 1,
                        wb |-> wb, h |-> r.h], 0)

\* The hook's whole answer; what is not byte-aligned goes to the driver's routine.
MonoBlit(m, r) ==
    LET c == ClipCopy(r)
    IN  IF c.w <= 0 \/ c.h <= 0 THEN m
        ELSE IF Aligned(c) THEN EngineCopy(m, c) ELSE CopyReference(m, r)

Copy(r) ==
    /\ mode.planes = 1
    /\ calls' = calls + 1
    /\ screen' = IF slots.blit = Original THEN CopyReference(screen, r) ELSE MonoBlit(screen, r)
    /\ wanted' = CopyReference(screen, r)
    /\ UNCHANGED <<mode, slots, runs, resident, fault>>

-----------------------------------------------------------------------------
(* mono_fill_c *)

FillRect(m, x1, y1, x2, y2, c) ==
    FillReference(m, [x1 |-> x1, y1 |-> y1, x2 |-> x2, y2 |-> y2, clip |-> c])

\* The columns of whole bytes: from the first byte edge at or after x1 to the last at or before x2.
FirstByte(x1) == ((x1 + B - 1) \div B) * B
LastByte(x2) == ((x2 + 1) \div B) * B - 1

EngineFill(m, x1, y1, x2, y2, c) ==
    LET bx1 == FirstByte(x1)
        bx2 == LastByte(x2)
        row0 == FillRect(m, x1, y1, x2, y1, c)
        body == Engine(row0, [src |-> y1 * Pitch + bx1 \div B, dst |-> (y1 + 1) * Pitch + bx1 \div B,
                              spitch |-> 0, dpitch |-> Pitch, step |-> 1,
                              wb |-> (bx2 - bx1 + 1) \div B, h |-> y2 - y1], 0)
        left == IF x1 < bx1 THEN FillRect(body, x1, y1 + 1, bx1 - 1, y2, c) ELSE body
    IN  IF x2 > bx2 THEN FillRect(left, bx2 + 1, y1 + 1, x2, y2, c) ELSE left

MonoFill(m, r) ==
    LET c == r.clip
        x1 == IF c.on THEN Hi(Lo(r.x1, r.x2), c.x1) ELSE Lo(r.x1, r.x2)
        y1 == IF c.on THEN Hi(Lo(r.y1, r.y2), c.y1) ELSE Lo(r.y1, r.y2)
        x2 == IF c.on THEN Lo(Hi(r.x1, r.x2), c.x2) ELSE Hi(r.x1, r.x2)
        y2 == IF c.on THEN Lo(Hi(r.y1, r.y2), c.y2) ELSE Hi(r.y1, r.y2)
        bx1 == FirstByte(x1)
        bx2 == LastByte(x2)
    IN  IF x1 > x2 \/ y1 > y2 THEN m
        ELSE IF y1 < 0 \/ x1 < 0 \/ bx2 < bx1 \/ (bx2 - bx1 + 1) * (y2 - y1) < Threshold
        THEN FillRect(m, x1, y1, x2, y2, c)
        ELSE EngineFill(m, x1, y1, x2, y2, c)

Fill(r) ==
    /\ mode.planes = 1
    /\ calls' = calls + 1
    /\ screen' = IF slots.fill = Original THEN FillReference(screen, r) ELSE MonoFill(screen, r)
    /\ wanted' = FillReference(screen, r)
    /\ UNCHANGED <<mode, slots, runs, resident, fault>>

-----------------------------------------------------------------------------
(* vrt_hook: the driver's routine writes outside the screen when clipping is off and a corner is. *)

OnScreen(r) == r.x1 >= 0 /\ r.y1 >= 0 /\ r.x2 >= 0 /\ r.y2 >= 0
               /\ r.x1 < W /\ r.x2 < W /\ r.y1 < H /\ r.y2 < H
Outside(r) == ~(r.x1 >= 0 /\ r.y1 >= 0 /\ r.x2 < W /\ r.y2 < H)

\* vrt_pre forces the screen as the clip for this one call; vrt_post puts the clip words back.
Forced(r) == ~r.clip.on /\ ~OnScreen(r)

VrtCopy(r) ==
    /\ mode.vrt8
    /\ LET hooked == slots.vrt # Original
           used == IF hooked /\ Forced(r) THEN FullClip ELSE r.clip
       IN  fault' = (fault \/ (~used.on /\ Outside(r) /\ hooked))
    /\ UNCHANGED <<mode, slots, runs, resident, screen, calls, wanted>>

-----------------------------------------------------------------------------
(* The program: install, -u and -s *)

Hooked(s) == s # Original

\* patch() when installing: what it puts into the slots, or 0 for a refusal.
MayInstall ==
    IF mode.planes = 1 THEN slots.blit = Original /\ slots.fill = Original
    ELSE mode.vrt8 /\ slots.vrt = Original

Install ==
    /\ runs < MaxRuns /\ calls = 0
    /\ runs' = runs + 1
    /\ IF MayInstall
       THEN LET me == runs + 1
                takes == mode.vrt8 /\ slots.vrt = Original
            IN  /\ slots' = [blit |-> IF mode.planes = 1 THEN me ELSE slots.blit,
                             fill |-> IF mode.planes = 1 THEN me ELSE slots.fill,
                             vrt  |-> IF takes THEN me ELSE slots.vrt]
                /\ resident' = resident \union
                       {[id |-> me, blit |-> IF mode.planes = 1 THEN slots.blit ELSE Original,
                         vrt |-> IF takes THEN slots.vrt ELSE Original]}
       ELSE UNCHANGED <<slots, resident>>
    /\ UNCHANGED <<mode, screen, calls, wanted, fault>>

Resident(s) == CHOOSE x \in resident : x.id = s

Restored ==
    [blit |-> IF Hooked(slots.blit) THEN Original ELSE slots.blit,
     fill |-> IF Hooked(slots.blit) THEN Original ELSE slots.fill,
     vrt  |-> IF Hooked(slots.vrt) THEN Resident(slots.vrt).vrt ELSE slots.vrt]

Uninstall ==
    /\ runs < MaxRuns /\ calls = 0
    /\ runs' = runs + 1
    /\ slots' = Restored
    /\ UNCHANGED <<mode, resident, screen, calls, wanted, fault>>

Call ==
    /\ calls < MaxCalls
    /\ \/ mode.planes = 1 /\ \E r \in CopyCalls : Copy(r)
       \/ mode.planes = 1 /\ \E r \in FillCalls : Fill(r)
       \/ mode.vrt8 /\ \E r \in VrtCalls : VrtCopy(r)

-----------------------------------------------------------------------------
(* Properties *)

\* However atwmono is installed, removed and installed again, a slot leads to a copy that is still
\* in memory, and from that copy straight to the driver: a second install never hooks the first.
SlotsSound ==
    /\ \A s \in {slots.blit, slots.fill, slots.vrt} :
          Hooked(s) => \E x \in resident : x.id = s /\ x.blit = Original /\ x.vrt = Original
    /\ slots.blit = slots.fill

\* Every copy and every fill leaves the pixels that the VDI promises, whichever of the engine and
\* the processor drew them and however source and destination overlap.
AsDrawn == screen = wanted

\* With the hook in place the driver never writes outside the screen.
NoStray == ~fault
=============================================================================
