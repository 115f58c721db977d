------------------------------- MODULE Device -------------------------------
(***************************************************************************)
(* How the makers of file systems size a device (mkfs.ext4/main.c:50,      *)
(* mkfs.fat32/main.c:38): by what the kernel reports of it, or else by     *)
(* reading sectors until one fails.                                        *)
(***************************************************************************)
EXTENDS Integers

CONSTANTS Sector,          \* 512 bytes, in the units sizes are counted in
          MaxLba           \* 4194303: the last sector the tools address

ASSUME DeviceAssumption == Sector \in Nat \ {0} /\ MaxLba \in Nat \ {0}

\* a device is [reported |-> units, or 0, sectors |-> those that can be used]
rd512(d, lba) == lba <= MaxLba /\ lba < d.sectors
wr512(d, lba) == lba <= MaxLba /\ lba < d.sectors

\* doubling until a read fails or the cap is passed, then halving
probe_capacity(d) ==
  LET double[hi \in 1..(2 * MaxLba)] ==
        IF ~rd512(d, hi) THEN <<hi \div 2, hi>>
        ELSE IF hi > MaxLba \div 2 THEN <<hi, MaxLba>>
        ELSE double[2 * hi]
      halve[between \in (0..MaxLba) \X (0..MaxLba)] ==
        LET lo  == between[1]
            hi  == between[2]
            mid == lo + (hi - lo) \div 2
        IN  IF hi - lo <= 1 THEN lo + 1
            ELSE IF rd512(d, mid) THEN halve[<<mid, hi>>] ELSE halve[<<lo, mid>>]
      lo == double[1][1]
      hi == double[1][2]
  IN  IF ~rd512(d, 0) THEN 0
      ELSE IF hi <= MaxLba /\ ~rd512(d, hi) THEN halve[<<lo, hi>>] * Sector
      ELSE (MaxLba + 1) * Sector

SizeOf(d) == IF d.reported > 0 THEN d.reported ELSE probe_capacity(d)

(* The probe finds the end of a device, up to what the tools address.      *)
ProbeIsExact(d) ==
  probe_capacity(d) =
    Sector * IF d.sectors <= MaxLba THEN d.sectors ELSE MaxLba + 1
=============================================================================
