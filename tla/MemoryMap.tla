------------------------------- MODULE MemoryMap -------------------------------
(***************************************************************************)
(* What the CPU reaches by a memory access (vt420_ram, vt420.c), the video *)
(* mapper's registers (video.c) and the two things outside that they       *)
(* switch: the ROM bank, and the timing of the sync generator (generic.c), *)
(* whose beam goes on meanwhile.                                           *)
(***************************************************************************)
EXTENDS Integers, FiniteSets

CONSTANTS
  Addresses,     \* addresses the CPU uses, of the 65536
  Values,        \* register -> the values the firmware writes to it
  HSync, HTotal, \* clocks of a line, in the sync pulse and all: 6 and 32 in the code
  VSync,         \* lines of the vertical sync: 16
  VPorch,        \* lines of the back porch at 60 Hz (FALSE) and at 70 Hz (TRUE): 188, 100
  VActive,       \* lines of the picture: 417
  VFront         \* lines of the front porch: 4, 3

VARIABLES
  mapper, mapper2,   \* registers of the mapper: as written last, and as written before
  bank,              \* the ROM bank
  hz70,              \* whether the sync generator runs at 70 Hz
  beamX, beamY, timing,   \* the sync generator: clock of the line, line, timing in use
  csync              \* what the last clock put on the composite sync line

memoryVars == <<mapper, mapper2, bank, hz70, beamX, beamY, timing, csync>>

Registers == DOMAIN Values
Bit(v, n) == (v \div 2^n) % 2 = 1

\* vmapper_init, vt420_ram_init.  Registers 4 and 5 do not show the timing and the bank in use
\* until they have been written.
MemoryInit ==
  /\ mapper = [r \in Registers |-> CASE r = 3 -> 255 [] r = 4 -> 255 [] r = 5 -> 244]
  /\ mapper2 = [r \in Registers |-> 0]
  /\ bank = 0 /\ hz70 = FALSE
  /\ beamX = 0 /\ beamY = 0 /\ timing = FALSE /\ csync = TRUE

(***************************************************************************)
(* vt420_ram_target_for_addr                                               *)
(***************************************************************************)
\* swizzle_video_ram: two pages of video memory change places.
Swizzled(a) == IF ~Bit(mapper[3], 4) THEN a
               ELSE IF 512 <= a /\ a < 768 THEN a + 256
               ELSE IF 768 <= a /\ a < 1024 THEN a - 256
               ELSE a

VramAt8000 == Bit(mapper[5], 5)

Target(a) ==
  CASE 32752 <= a /\ a < 32768 -> <<"mapper", a % 16>>          \* 7ff0..7fff
    [] 32736 <= a /\ a < 32752 -> <<"duart", a % 16>>           \* 7fe0..7fef
    [] 32256 <= a /\ a < 32512 -> <<"peripheral", a % 256>>     \* 7e00..7eff
    [] a < 32256 \/ (32512 <= a /\ a < 32736) -> <<"vram", Swizzled(a)>>
    [] a >= 32768 -> IF VramAt8000 THEN <<"vram", (a % 32768) + 32768>> ELSE <<"sram", a % 32768>>

Size(store) == CASE store = "mapper" -> 16 [] store = "duart" -> 16 [] store = "peripheral" -> 256
                 [] store = "vram" -> 131072 [] store = "sram" -> 32768

(***************************************************************************)
(* The sync generator                                                      *)
(***************************************************************************)
VTotal(t) == VSync + VPorch[t] + VActive + VFront[t]

\* sync_gen_tick
InHSync == beamX < HSync
InVSync == beamY < VSync
Tick ==
  /\ csync' = IF InVSync THEN ~InHSync \/ (beamY = VSync - 1 /\ beamX = 2) ELSE InHSync
  /\ IF beamX + 1 = HTotal
     THEN beamX' = 0 /\ beamY' = IF beamY + 1 = VTotal(timing) THEN 0 ELSE beamY + 1
     ELSE beamX' = beamX + 1 /\ UNCHANGED beamY
  /\ UNCHANGED <<mapper, mapper2, bank, hz70, timing>>

\* sync_holder_set_hz_70, sync_gen_init: a change of timing starts a new frame.
SetHz70KeepingBeam(v) == hz70' = v /\ timing' = v /\ UNCHANGED <<beamX, beamY>>
SetHz70(v) == IF v = hz70 THEN UNCHANGED <<hz70, timing, beamX, beamY>>
              ELSE hz70' = v /\ timing' = v /\ beamX' = 0 /\ beamY' = 0

\* ram_write_at, to the mapper; vmapper_set.
WriteMapper(r, v) ==
  /\ bank' = IF r = 5 THEN IF Bit(v, 2) THEN 1 ELSE 0 ELSE bank
  /\ SetHz70(IF r = 4 THEN Bit(v, 4) ELSE hz70)
  /\ mapper2' = [mapper2 EXCEPT ![r] = mapper[r]]
  /\ mapper' = [mapper EXCEPT ![r] = v]
  /\ UNCHANGED csync

MemoryNext == Tick \/ \E r \in Registers : \E v \in Values[r] : WriteMapper(r, v)

\* vt420.c: whatever the mapper is set to, an address stays inside the memory it leads to, no two
\* addresses share a byte, and exchanging the two pages hides no byte of video memory.
AddressesDisjoint ==
  /\ \A a \in Addresses : Target(a)[2] \in 0..(Size(Target(a)[1]) - 1)
  /\ \A a, b \in Addresses : Target(a) = Target(b) => a = b
  /\ \A a \in Addresses : Target(a)[1] = "vram" /\ a < 32768 =>
       \E b \in Addresses : Target(b) = <<"vram", a>>

\* generic.c: the beam sweeps the frame of the timing in use, clock by clock and line by line,
\* whenever the firmware changes the timing, and then starts at the top; it never runs out of
\* the frame.
Position == beamY * HTotal + beamX
BeamInFrame ==
  [][IF hz70' = hz70
     THEN Position' \in {Position, (Position + 1) % (HTotal * VTotal(hz70))}
     ELSE Position' = 0]_memoryVars
=============================================================================
